---- MODULE Spec2Model ----
(***************************************************************************)
(* A model of rs3a, the document model and codec of the 3a animated        *)
(* ASCII art format: validated characters, colors and the palette, the     *)
(* Cell / Frame / Frames grid model, the channel pin/merge engine and the  *)
(* modern-dialect reader and writer.                                       *)
(*                                                                         *)
(* Conventions.  A character is its Unicode code point.  Option<T> is a    *)
(* sequence of length at most one: None is << >>, Some(x) is <<x>>.  Rust  *)
(* indices are 0-based; the sequences here are 1-based, and every operator *)
(* that takes an index takes the 0-based index of the API.                 *)
(***************************************************************************)
EXTENDS Integers, Sequences, FiniteSets, TLC

VARIABLES frame, fs, art, doc, tok, op, pre, res, steps

vars == <<frame, fs, art, doc, tok, op, pre, res, steps>>

None == << >>
Some(x) == <<x>>
IsSome(o) == o # << >>
Unwrap(o) == o[1]

Min(a, b) == IF a < b THEN a ELSE b
Max(a, b) == IF a > b THEN a ELSE b

(***************************************************************************)
(* Characters                                                              *)
(***************************************************************************)
SPACE == 32
UNDERSCORE == 95

\* The code points of the characters the inputs below are written with.
Ord ==
  [s \in {"A", "B", "C", "D", "0", "1", "2", "3", "a", "r", "g", "h", "x", "@", "_", " "} |->
     CASE s = "A" -> 65 [] s = "B" -> 66 [] s = "C" -> 67 [] s = "D" -> 68
       [] s = "0" -> 48 [] s = "1" -> 49 [] s = "2" -> 50 [] s = "3" -> 51
       [] s = "a" -> 97 [] s = "r" -> 114 [] s = "g" -> 103 [] s = "h" -> 104
       [] s = "x" -> 120 [] s = "@" -> 64 [] s = "_" -> 95 [] s = " " -> 32]

\* check_char: Some(normalized code point), or None for a rejected one.
check_char(cp) ==
  IF cp = 32 THEN Some(32)
  ELSE IF cp = 9 THEN Some(32)
  ELSE IF cp = 6158 THEN Some(32)
  ELSE IF \/ cp = 32 \/ cp = 160 \/ cp = 5760
          \/ (cp >= 8192 /\ cp <= 8202)
          \/ cp = 8239 \/ cp = 8287 \/ cp = 12288 THEN Some(32)
  ELSE IF cp >= 0 /\ cp <= 31 THEN None
  ELSE IF cp \in {127, 129, 141, 143, 144, 157, 160} THEN None
  ELSE IF cp >= 768 /\ cp <= 879 THEN None
  ELSE IF \/ (cp >= 8203 /\ cp <= 8207) \/ cp = 65279
          \/ (cp >= 65024 /\ cp <= 65039) THEN None
  ELSE IF (cp >= 8234 /\ cp <= 8238) \/ (cp >= 8294 /\ cp <= 8297) THEN None
  ELSE IF cp >= 55296 /\ cp <= 57343 THEN None
  ELSE Some(cp)

(***************************************************************************)
(* Cell and Frame                                                          *)
(***************************************************************************)
MkCell(t, c) == [text |-> t, color |-> c]

\* impl Default for Cell
DefaultCell == MkCell(SPACE, None)

\* Cell::color
CellColor(cell) == cell.color # None

\* Frame::width / Frame::height
FrameWidth(f) == f.width
FrameHeight(f) == Len(f.rows)

\* Frame::color.  The counter is a usize; the model keeps it as an integer
\* in which a negative n stands for the wrapped value 2^64 + n that a
\* release build holds after `self.color -= 1` on 0 (a debug build aborts
\* the process at that subtraction, which leaves no state behind).  Under
\* that reading the unsigned test `self.color > 0` is `color # 0`.
FrameColor(f) == f.color # 0

\* Frame::new
FrameNew(width, height, fill) ==
  [color |-> IF CellColor(fill) THEN width * height ELSE 0,
   width |-> width,
   rows  |-> [r \in 1..height |-> [c \in 1..width |-> fill]]]

\* The number of cells of a frame that carry a color (a fresh full recount).
RECURSIVE SumSeq(_)
SumSeq(s) == IF s = << >> THEN 0 ELSE Head(s) + SumSeq(Tail(s))

CountColors(rows) ==
  SumSeq([r \in 1..Len(rows) |->
            Cardinality({c \in 1..Len(rows[r]) : CellColor(rows[r][c])})])

\* Frame::recalc_colors
recalc_colors(f) == [f EXCEPT !.color = CountColors(f.rows)]

\* Frame::remove_color: the cells are cleared, the counter is not touched.
FrameRemoveColor(f, color) ==
  [f EXCEPT !.rows =
     [r \in 1..Len(f.rows) |->
        [c \in 1..Len(f.rows[r]) |->
           IF f.rows[r][c].color = Some(color)
             THEN [f.rows[r][c] EXCEPT !.color = None]
             ELSE f.rows[r][c]]]]

\* slice::rotate_right(k), slice::rotate_left(k) for k <= len
RotateRight(s, k) ==
  [i \in 1..Len(s) |-> s[((i - 1 - k + Len(s)) % Len(s)) + 1]]
RotateLeft(s, k) ==
  [i \in 1..Len(s) |-> s[((i - 1 + k) % Len(s)) + 1]]

\* for c in 0..n { s[c] = v }
FillPrefix(s, n, v) == [i \in 1..Len(s) |-> IF i <= n THEN v ELSE s[i]]

\* Frame::shift_right
FrameShiftRight(f, cols, fill) ==
  LET h == FrameHeight(f)
      w == FrameWidth(f)
  IN IF h = 0 \/ w = 0 THEN f
     ELSE [f EXCEPT !.rows =
             [r \in 1..h |->
                FillPrefix(IF cols <= w THEN RotateRight(f.rows[r], cols)
                                        ELSE f.rows[r],
                           Min(cols, w), fill)]]

\* A reading of shift_left that rotates before it fills
FrameShiftLeft_rotate_first(f, cols, fill) ==
  LET h == FrameHeight(f)
      w == FrameWidth(f)
  IN IF h = 0 \/ w = 0 THEN f
     ELSE [f EXCEPT !.rows =
             [r \in 1..h |->
                FillPrefix(IF cols <= w THEN RotateLeft(f.rows[r], cols)
                                        ELSE f.rows[r],
                           Min(cols, w), fill)]]
\* Frame::shift_left
FrameShiftLeft(f, cols, fill) ==
  LET h == FrameHeight(f)
      w == FrameWidth(f)
  IN IF h = 0 \/ w = 0 THEN f
     ELSE [f EXCEPT !.rows =
             [r \in 1..h |->
                LET filled == FillPrefix(f.rows[r], Min(cols, w), fill)
                IN IF cols <= w THEN RotateLeft(filled, cols) ELSE filled]]

\* vec![fill; self.width()]
FillRow(f, fill) == [c \in 1..FrameWidth(f) |-> fill]

\* Frame::shift_down
FrameShiftDown(f, rows, fill) ==
  LET h == FrameHeight(f)
  IN IF h = 0 THEN f
     ELSE [f EXCEPT !.rows =
             FillPrefix(IF rows <= h THEN RotateRight(f.rows, rows) ELSE f.rows,
                        Min(rows, h), FillRow(f, fill))]

\* Frame::shift_up
FrameShiftUp(f, rows, fill) ==
  LET h == FrameHeight(f)
  IN IF h = 0 THEN f
     ELSE LET filled == FillPrefix(f.rows, Min(rows, h), FillRow(f, fill))
          IN [f EXCEPT !.rows =
                IF rows <= h THEN RotateLeft(filled, rows) ELSE filled]

\* Frame::adjust_color
adjust_color(f, old, new) ==
  IF CellColor(old) /\ ~CellColor(new) THEN [f EXCEPT !.color = @ - 1]
  ELSE IF ~CellColor(old) /\ CellColor(new) THEN [f EXCEPT !.color = @ + 1]
  ELSE f

\* Frame::set
FrameSet(f, column, row, new) ==
  IF column < FrameWidth(f) /\ row < FrameHeight(f)
    THEN adjust_color([f EXCEPT !.rows[row + 1][column + 1] = new],
                      f.rows[row + 1][column + 1], new)
    ELSE f

\* Frame::get
FrameGet(f, column, row, default) ==
  IF column < FrameWidth(f) /\ row < FrameHeight(f)
    THEN f.rows[row + 1][column + 1]
    ELSE default

\* Frame::fill_area: `columns` and `rows` are the sequences the two
\* iterators yield; the cells are set column by column.
RECURSIVE FillAreaRows(_, _, _, _)
FillAreaRows(f, column, rows, new) ==
  IF rows = << >> THEN f
  ELSE FillAreaRows(FrameSet(f, column, Head(rows), new), column, Tail(rows), new)

RECURSIVE FrameFillArea(_, _, _, _)
FrameFillArea(f, columns, rows, new) ==
  IF columns = << >> THEN f
  ELSE FrameFillArea(FillAreaRows(f, Head(columns), rows, new),
                     Tail(columns), rows, new)

\* Vec::resize(n, v)
VecResize(s, n, v) == [i \in 1..n |-> IF i <= Len(s) THEN s[i] ELSE v]

\* Frame::resize_width
FrameResizeWidth(f, width, fill) ==
  IF FrameWidth(f) # width
    THEN [f EXCEPT !.rows = [r \in 1..Len(f.rows) |-> VecResize(f.rows[r], width, fill)],
                   !.width = width]
    ELSE f

\* Frame::resize_height
FrameResizeHeight(f, height, fill) ==
  IF FrameHeight(f) # height
    THEN [f EXCEPT !.rows = VecResize(f.rows, height, FillRow(f, fill))]
    ELSE f

\* A reading of resize that leaves the height
FrameResize_width_only(f, width, height, fill) == FrameResizeWidth(f, width, fill)
\* Frame::resize
FrameResize(f, width, height, fill) ==
  FrameResizeHeight(FrameResizeWidth(f, width, fill), height, fill)

\* Frame::adjust_width
FrameAdjustWidth(f, width, fill) ==
  IF width > FrameWidth(f) THEN FrameResizeWidth(f, width, fill) ELSE f

\* Frame::adjust_height
FrameAdjustHeight(f, height, fill) ==
  IF height > FrameHeight(f) THEN FrameResizeHeight(f, height, fill) ELSE f

\* Frame::adjust
FrameAdjust(f, width, height, fill) ==
  FrameAdjustHeight(FrameAdjustWidth(f, width, fill), height, fill)

\* Frame::fill
FrameFill(f, fill) ==
  [f EXCEPT !.color = IF CellColor(fill) THEN FrameWidth(f) * FrameHeight(f) ELSE 0,
            !.rows = [r \in 1..Len(f.rows) |-> [c \in 1..Len(f.rows[r]) |-> fill]]]

\* Frame::fill_text
FrameFillText(f, fill) ==
  [f EXCEPT !.rows =
     [r \in 1..Len(f.rows) |->
        [c \in 1..Len(f.rows[r]) |-> [f.rows[r][c] EXCEPT !.text = fill]]]]

\* Frame::fill_color
FrameFillColor(f, fill) ==
  [f EXCEPT !.color = IF fill = None THEN 0 ELSE FrameWidth(f) * FrameHeight(f),
            !.rows =
     [r \in 1..Len(f.rows) |->
        [c \in 1..Len(f.rows[r]) |-> [f.rows[r][c] EXCEPT !.color = fill]]]]

\* Frame::clean
FrameClean(f) ==
  FrameFill(f, MkCell(SPACE, IF FrameColor(f) THEN Some(UNDERSCORE) ELSE None))

\* Frame::print: `line` is the sequence of the code points of the string,
\* `color` an Option<Option<Char>>.
RECURSIVE FramePrint(_, _, _, _, _)
FramePrint(f, col, row, line, color) ==
  IF line = << >> THEN f
  ELSE LET ch == check_char(Head(line))
       IN IF IsSome(ch)
            THEN LET got  == FrameGet(f, col, row, DefaultCell)
                     cell == [text  |-> Unwrap(ch),
                              color |-> IF IsSome(color) THEN Unwrap(color)
                                                         ELSE got.color]
                 IN FramePrint(FrameSet(f, col, row, cell), col + 1, row,
                               Tail(line), color)
            ELSE FramePrint(f, col, row, Tail(line), color)

(***************************************************************************)
(* Frames                                                                  *)
(***************************************************************************)
\* Variants of merge_frames used to test the merge properties: one keeps
\* both channels of the text frame, one tests the widths before the heights.
merge_frames_text_only(text, color) ==
  IF FrameHeight(text) # FrameHeight(color)
    THEN [ok |-> FALSE, err |-> "HeightMismatch", frame |-> text]
  ELSE IF FrameWidth(text) # FrameWidth(color)
    THEN [ok |-> FALSE, err |-> "WidthMismatch", frame |-> text]
  ELSE [ok |-> TRUE, err |-> "", frame |-> recalc_colors(text)]
merge_frames_width_first(text, color) ==
  IF FrameWidth(text) # FrameWidth(color)
    THEN [ok |-> FALSE, err |-> "WidthMismatch", frame |-> text]
  ELSE IF FrameHeight(text) # FrameHeight(color)
    THEN [ok |-> FALSE, err |-> "HeightMismatch", frame |-> text]
  ELSE [ok |-> TRUE, err |-> "", frame |-> recalc_colors(text)]

\* merge_frames: [ok, err, frame]
merge_frames(text, color) ==
  IF FrameHeight(text) # FrameHeight(color)
    THEN [ok |-> FALSE, err |-> "HeightMismatch", frame |-> text]
  ELSE IF FrameWidth(text) # FrameWidth(color)
    THEN [ok |-> FALSE, err |-> "WidthMismatch", frame |-> text]
  ELSE [ok |-> TRUE, err |-> "",
        frame |-> recalc_colors(
          [color |-> 0,
           width |-> FrameWidth(text),
           rows  |-> [r \in 1..FrameHeight(text) |->
                        [c \in 1..FrameWidth(text) |->
                           MkCell(text.rows[r][c].text, color.rows[r][c].color)]]])]

\* Frames::new
FramesNew(n, width, height, fill) ==
  [text_pin |-> None, color_pin |-> None, width |-> width, height |-> height,
   frames |-> [i \in 1..n |-> FrameNew(width, height, fill)]]

\* Frames::frames / width / height
FramesCount(s) == Len(s.frames)
FramesWidth(s) == s.width
FramesHeight(s) == s.height

\* Apply a Frame operation to every frame / to frame `f` if it exists.
EachFrame(s, Op(_)) ==
  [s EXCEPT !.frames = [i \in 1..Len(s.frames) |-> Op(s.frames[i])]]
OneFrame(s, f, Op(_)) ==
  IF f < FramesCount(s) THEN [s EXCEPT !.frames[f + 1] = Op(@)] ELSE s

\* Frames::remove_color
FramesRemoveColor(s, color) ==
  LET Do(x) == FrameRemoveColor(x, color) IN EachFrame(s, Do)

\* Frames::set / Frames::get
FramesSet(s, f, column, row, new) ==
  LET Do(x) == FrameSet(x, column, row, new) IN OneFrame(s, f, Do)
FramesGet(s, f, column, row, default) ==
  IF f < FramesCount(s) THEN FrameGet(s.frames[f + 1], column, row, default)
  ELSE default

\* Frames::make_sure_frame_exist
make_sure_frame_exist(s, f) ==
  IF f >= FramesCount(s)
    THEN IF FramesCount(s) = 0
           THEN [s EXCEPT !.frames =
                   [i \in 1..(f + 1) |-> FrameNew(s.width, s.height, DefaultCell)]]
           ELSE [s EXCEPT !.frames =
                   [i \in 1..(f + 1) |->
                      IF i <= Len(s.frames) THEN s.frames[i]
                      ELSE s.frames[Len(s.frames)]]]
    ELSE s

\* Vec::insert(i, x) / Vec::remove(i), 0-based
VecInsert(v, i, x) ==
  [k \in 1..(Len(v) + 1) |->
     IF k <= i THEN v[k] ELSE IF k = i + 1 THEN x ELSE v[k - 1]]
VecRemove(v, i) ==
  [k \in 1..(Len(v) - 1) |-> IF k <= i THEN v[k] ELSE v[k + 1]]

\* Frames::dup_frame
dup_frame(s, f) ==
  LET t == make_sure_frame_exist(s, f)
  IN [t EXCEPT !.frames = VecInsert(t.frames, f, t.frames[f + 1])]

\* Frames::remove_frame
remove_frame(s, f) ==
  IF f < Len(s.frames) THEN [s EXCEPT !.frames = VecRemove(s.frames, f)] ELSE s

\* Frames::adjust / adjust_width / adjust_height
FramesAdjust(s, width, height, fill) ==
  LET Do(x) == FrameAdjust(x, width, height, fill)
  IN [EachFrame(s, Do) EXCEPT !.width = width, !.height = height]
FramesAdjustWidth(s, width, fill) ==
  LET Do(x) == FrameAdjustWidth(x, width, fill)
  IN [EachFrame(s, Do) EXCEPT !.width = width]
FramesAdjustHeight(s, height, fill) ==
  LET Do(x) == FrameAdjustHeight(x, height, fill)
  IN [EachFrame(s, Do) EXCEPT !.height = height]

\* Frames::resize / resize_width / resize_height
FramesResize(s, width, height, fill) ==
  LET Do(x) == FrameResize(x, width, height, fill)
  IN [EachFrame(s, Do) EXCEPT !.width = width, !.height = height]
FramesResizeWidth(s, width, fill) ==
  LET Do(x) == FrameResizeWidth(x, width, fill)
  IN [EachFrame(s, Do) EXCEPT !.width = width]
FramesResizeHeight(s, height, fill) ==
  LET Do(x) == FrameResizeHeight(x, height, fill)
  IN [EachFrame(s, Do) EXCEPT !.height = height]

\* Frames::contains_color
FrameContainsColor(f, col) ==
  \E r \in 1..Len(f.rows) : \E c \in 1..Len(f.rows[r]) : f.rows[r][c].color = Some(col)
FramesContainsColor(s, name) ==
  \E i \in 1..Len(s.frames) : FrameContainsColor(s.frames[i], name)

\* Frames::contains_text (Art::contains_text passes its argument on to it):
\* the loop over the frames calls Frame::contains_color
FramesContainsText(s, ch) ==
  \E i \in 1..Len(s.frames) : FrameContainsColor(s.frames[i], ch)

\* Frames::color
FramesColor(s) == \E i \in 1..Len(s.frames) : FrameColor(s.frames[i])

\* The two loops of Frames::merge.  Each stops at the first frame whose
\* merge fails (the `?`), leaving the frames before it replaced:
\* [ok, err, frames].
RECURSIVE MergeColorPin(_, _, _)
MergeColorPin(frames, i, pin) ==
  IF i > Len(frames) THEN [ok |-> TRUE, err |-> "", frames |-> frames]
  ELSE LET m == merge_frames(frames[i], pin)
       IN IF m.ok THEN MergeColorPin([frames EXCEPT ![i] = m.frame], i + 1, pin)
          ELSE [ok |-> FALSE, err |-> m.err, frames |-> frames]

RECURSIVE MergeTextPin(_, _, _)
MergeTextPin(frames, i, pin) ==
  IF i > Len(frames) THEN [ok |-> TRUE, err |-> "", frames |-> frames]
  ELSE LET m == merge_frames(pin, frames[i])
       IN IF m.ok THEN MergeTextPin([frames EXCEPT ![i] = m.frame], i + 1, pin)
          ELSE [ok |-> FALSE, err |-> m.err, frames |-> frames]

\* A reading of merge that leaves the pins set
merge_keep_pins(s) ==
  LET a == IF IsSome(s.color_pin)
             THEN MergeColorPin(s.frames, 1, Unwrap(s.color_pin))
             ELSE [ok |-> TRUE, err |-> "", frames |-> s.frames]
      b == IF a.ok /\ IsSome(s.text_pin)
             THEN MergeTextPin(a.frames, 1, Unwrap(s.text_pin))
             ELSE a
  IN [ok |-> b.ok, err |-> b.err, fs |-> [s EXCEPT !.frames = b.frames]]
\* Frames::merge: [ok, err, fs].  On an error the pins stay set.
merge(s) ==
  LET a == IF IsSome(s.color_pin)
             THEN MergeColorPin(s.frames, 1, Unwrap(s.color_pin))
             ELSE [ok |-> TRUE, err |-> "", frames |-> s.frames]
      b == IF a.ok /\ IsSome(s.text_pin)
             THEN MergeTextPin(a.frames, 1, Unwrap(s.text_pin))
             ELSE a
  IN IF b.ok
       THEN [ok |-> TRUE, err |-> "",
             fs |-> [s EXCEPT !.frames = b.frames,
                              !.color_pin = None, !.text_pin = None]]
       ELSE [ok |-> FALSE, err |-> b.err, fs |-> [s EXCEPT !.frames = b.frames]]

\* A reading of pin_color that always pins the first frame
pin_color_first(s, f) ==
  IF f >= Len(s.frames) THEN [ok |-> TRUE, err |-> "", fs |-> s]
  ELSE merge([s EXCEPT !.color_pin = Some(s.frames[1])])
\* Frames::pin_color / Frames::pin_text: [ok, err, fs]
pin_color(s, f) ==
  IF f >= Len(s.frames) THEN [ok |-> TRUE, err |-> "", fs |-> s]
  ELSE merge([s EXCEPT !.color_pin = Some(s.frames[f + 1])])
pin_text(s, f) ==
  IF f >= Len(s.frames) THEN [ok |-> TRUE, err |-> "", fs |-> s]
  ELSE merge([s EXCEPT !.text_pin = Some(s.frames[f + 1])])

\* The scan of Frames::pinned over the frames of one cell position, with
\* its early return: [tp, cp, ret] where ret is set once both flags fell.
RECURSIVE PinnedCell(_, _, _, _, _, _, _)
PinnedCell(frames, i, r, c, last, tp, cp) ==
  IF i > Len(frames) THEN [tp |-> tp, cp |-> cp, ret |-> FALSE]
  ELSE LET cell == frames[i].rows[r][c]
           tp2  == tp /\ (IsSome(last) => Unwrap(last).text = cell.text)
           cp2  == cp /\ (IsSome(last) => Unwrap(last).color = cell.color)
       IN IF ~tp2 /\ ~cp2 THEN [tp |-> FALSE, cp |-> FALSE, ret |-> TRUE]
          ELSE PinnedCell(frames, i + 1, r, c, Some(cell), tp2, cp2)

\* for c in 0..self.width { for r in 0..self.height { ... } }
RECURSIVE PinnedScan(_, _, _, _, _)
PinnedScan(s, c, r, tp, cp) ==
  IF c > s.width THEN <<tp, cp>>
  ELSE IF r > s.height THEN PinnedScan(s, c + 1, 1, tp, cp)
  ELSE LET x == PinnedCell(s.frames, 1, r, c, None, tp, cp)
       IN IF x.ret THEN <<FALSE, FALSE>>
          ELSE PinnedScan(s, c, r + 1, x.tp, x.cp)

\* Frames::pinned
pinned(s) ==
  IF Len(s.frames) < 2 THEN <<FALSE, FALSE>>
  ELSE PinnedScan(s, 1, 1, TRUE, TRUE)

\* A reading of check_frame that compares the widths only
check_frame_width_only(s, f) ==
  IF s.width # 0 /\ s.width # FrameWidth(f)
    THEN [ok |-> FALSE, err |-> "WidthMismatch", fs |-> s]
  ELSE [ok |-> TRUE, err |-> "",
        fs |-> [s EXCEPT !.width = FrameWidth(f), !.height = FrameHeight(f)]]

\* Frames::check_frame: [ok, err, fs]
check_frame(s, f) ==
  IF s.width # 0 /\ s.width # FrameWidth(f)
    THEN [ok |-> FALSE, err |-> "WidthMismatch", fs |-> s]
  ELSE IF s.height # 0 /\ s.height # FrameHeight(f)
    THEN [ok |-> FALSE, err |-> "HeightMismatch", fs |-> s]
  ELSE [ok |-> TRUE, err |-> "",
        fs |-> [s EXCEPT !.width = FrameWidth(f), !.height = FrameHeight(f)]]

\* Frames::read_text_pin / read_color_pin applied to the frame that
\* Frame::read_text / Frame::read_color produced: [ok, err, fs]
read_text_pin(s, f) ==
  IF s.text_pin # None THEN [ok |-> FALSE, err |-> "BlockDup", fs |-> s]
  ELSE IF FrameWidth(f) # 0 /\ FrameHeight(f) # 0
    THEN [ok |-> TRUE, err |-> "", fs |-> [s EXCEPT !.text_pin = Some(f)]]
  ELSE [ok |-> TRUE, err |-> "", fs |-> s]
read_color_pin(s, f) ==
  IF s.color_pin # None THEN [ok |-> FALSE, err |-> "BlockDup", fs |-> s]
  ELSE IF FrameWidth(f) # 0 /\ FrameHeight(f) # 0
    THEN [ok |-> TRUE, err |-> "", fs |-> [s EXCEPT !.color_pin = Some(f)]]
  ELSE [ok |-> TRUE, err |-> "", fs |-> s]

\* The loop of Frames::read_body_both / read_body_text / read_body_color
\* over the frames read from the block, up to the first empty one:
\* [ok, err, fs], the Frames value on which merge is then called.
RECURSIVE read_body_loop(_, _, _)
read_body_loop(s, read, i) ==
  IF i > Len(read) THEN [ok |-> TRUE, err |-> "", fs |-> s]
  ELSE IF FrameWidth(read[i]) = 0 \/ FrameHeight(read[i]) = 0
    THEN [ok |-> TRUE, err |-> "", fs |-> s]
  ELSE LET k == check_frame(s, read[i])
       IN IF ~k.ok THEN k
          ELSE read_body_loop([k.fs EXCEPT !.frames = Append(@, read[i])],
                              read, i + 1)

(***************************************************************************)
(* Strings: sequences of code points                                       *)
(***************************************************************************)
\* The string literals of the source.
Lit ==
  [at3a |-> <<64, 51, 97>>,
   at |-> <<64>>,
   comment |-> <<59, 59>>,
   hash |-> <<35>>,
   sp |-> <<32>>,
   title |-> <<116, 105, 116, 108, 101>>,
   orig_author |-> <<111, 114, 105, 103, 45, 97, 117, 116, 104, 111, 114>>,
   author |-> <<97, 117, 116, 104, 111, 114>>,
   src |-> <<115, 114, 99>>,
   editor |-> <<101, 100, 105, 116, 111, 114>>,
   license |-> <<108, 105, 99, 101, 110, 115, 101>>,
   delay |-> <<100, 101, 108, 97, 121>>,
   loop |-> <<108, 111, 111, 112>>,
   preview |-> <<112, 114, 101, 118, 105, 101, 119>>,
   colors |-> <<99, 111, 108, 111, 114, 115>>,
   col |-> <<99, 111, 108>>,
   yes |-> <<121, 101, 115>>,
   true |-> <<116, 114, 117, 101>>,
   no |-> <<110, 111>>,
   false |-> <<102, 97, 108, 115, 101>>,
   fg |-> <<102, 103, 58>>,
   bg |-> <<98, 103, 58>>,
   bright |-> <<98, 114, 105, 103, 104, 116, 45>>,
   gray |-> <<103, 114, 97, 121>>,
   grey |-> <<103, 114, 101, 121>>,
   attach |-> <<97, 116, 116, 97, 99, 104>>,
   text_pin |-> <<116, 101, 120, 116, 45, 112, 105, 110>>,
   color_pin |-> <<99, 111, 108, 111, 114, 45, 112, 105, 110>>,
   body |-> <<98, 111, 100, 121>>,
   colors_yes |-> <<99, 111, 108, 111, 114, 115, 32, 121, 101, 115>>,
   utf8 |-> <<117, 116, 102, 56>>,
   width |-> <<119, 105, 100, 116, 104>>,
   height |-> <<104, 101, 105, 103, 104, 116>>,
   none |-> <<110, 111, 110, 101>>,
   fg_only |-> <<102, 103>>,
   bg_only |-> <<98, 103>>,
   full |-> <<102, 117, 108, 108>>]
\* The hue names of Color4 in the order Black .. White.
HueNames ==
  <<<<98, 108, 97, 99, 107>>,
    <<114, 101, 100>>,
    <<103, 114, 101, 101, 110>>,
    <<121, 101, 108, 108, 111, 119>>,
    <<98, 108, 117, 101>>,
    <<109, 97, 103, 101, 110, 116, 97>>,
    <<99, 121, 97, 110>>,
    <<119, 104, 105, 116, 101>>>>

\* str::starts_with / str::strip_prefix
StartsWith(s, p) == Len(s) >= Len(p) /\ SubSeq(s, 1, Len(p)) = p
StripPrefix(s, p) ==
  IF StartsWith(s, p) THEN Some(SubSeq(s, Len(p) + 1, Len(s))) ELSE None

\* char::is_whitespace (the Unicode White_Space property)
IsWhitespace(cp) ==
  \/ cp \in 9..13
  \/ cp \in {32, 133, 160, 5760, 8232, 8233, 8239, 8287, 12288}
  \/ cp \in 8192..8202

\* str::trim
RECURSIVE TrimStart(_)
TrimStart(s) ==
  IF s # << >> /\ IsWhitespace(Head(s)) THEN TrimStart(Tail(s)) ELSE s
RECURSIVE TrimEnd(_)
TrimEnd(s) ==
  IF s # << >> /\ IsWhitespace(s[Len(s)])
    THEN TrimEnd(SubSeq(s, 1, Len(s) - 1)) ELSE s
Trim(s) == TrimEnd(TrimStart(s))

\* str::to_lowercase on the ASCII letters; the other code points used here
\* have no lowercase mapping.
ToLower(s) ==
  [i \in 1..Len(s) |-> IF s[i] \in 65..90 THEN s[i] + 32 ELSE s[i]]

\* Index of the first space of s, 0 if there is none.
RECURSIVE FindSpace(_, _)
FindSpace(s, i) ==
  IF i > Len(s) THEN 0 ELSE IF s[i] = 32 THEN i ELSE FindSpace(s, i + 1)

\* str::split_once(" "): None, or Some of <<before, after>>
split_once(s) ==
  LET i == FindSpace(s, 1)
  IN IF i = 0 THEN None
     ELSE Some(<<SubSeq(s, 1, i - 1), SubSeq(s, i + 1, Len(s))>>)

\* str::split(" "): the pieces between the spaces, empty pieces included
RECURSIVE Split(_)
Split(s) ==
  LET i == FindSpace(s, 1)
  IN IF i = 0 THEN <<s>>
     ELSE <<SubSeq(s, 1, i - 1)>> \o Split(SubSeq(s, i + 1, Len(s)))

\* [&str]::join(" ")
RECURSIVE Join(_)
Join(pieces) ==
  IF pieces = << >> THEN << >>
  ELSE IF Len(pieces) = 1 THEN pieces[1]
  ELSE pieces[1] \o <<32>> \o Join(Tail(pieces))

\* A reading of normalize_text that drops the rejected characters and
\* keeps every other one as it is
normalize_text_keep(s) == SelectSeq(s, LAMBDA c : check_char(c) # None)

\* normalize_text
RECURSIVE normalize_text(_)
normalize_text(s) ==
  IF s = << >> THEN << >>
  ELSE check_char(Head(s)) \o normalize_text(Tail(s))

\* Value of an ASCII digit in the given radix, -1 if it is none.
DigitVal(cp, radix) ==
  LET v == IF cp \in 48..57 THEN cp - 48
           ELSE IF cp \in 97..122 THEN cp - 97 + 10
           ELSE IF cp \in 65..90 THEN cp - 65 + 10
           ELSE 36
  IN IF v < radix THEN v ELSE -1

\* The digits loop of u8::from_str_radix: None on a non-digit or on overflow.
RECURSIVE ParseDigits(_, _, _)
ParseDigits(s, radix, acc) ==
  IF s = << >> THEN Some(acc)
  ELSE LET d == DigitVal(Head(s), radix)
       IN IF d < 0 \/ acc * radix + d > 255 THEN None
          ELSE ParseDigits(Tail(s), radix, acc * radix + d)

\* u8::from_str_radix (str::parse::<u8> is radix 10): an optional '+', then
\* at least one digit.
from_str_radix(s, radix) ==
  IF s = << >> THEN None
  ELSE IF s = <<43>> \/ s = <<45>> THEN None
  ELSE IF Head(s) = 43 THEN ParseDigits(Tail(s), radix, 0)
  ELSE ParseDigits(s, radix, 0)

\* Display of an unsigned integer
RECURSIVE FmtDec(_)
FmtDec(n) ==
  IF n < 10 THEN <<48 + n>> ELSE FmtDec(n \div 10) \o <<48 + (n % 10)>>

\* {:02x} of a byte
HexDigit(d) == IF d < 10 THEN 48 + d ELSE 97 + d - 10
FmtHex2(n) == <<HexDigit(n \div 16), HexDigit(n % 16)>>

\* Length of the UTF-8 encoding of a char and of a string (str::len).
Utf8Len(cp) ==
  IF cp < 128 THEN 1 ELSE IF cp < 2048 THEN 2 ELSE IF cp < 65536 THEN 3 ELSE 4
RECURSIVE StrLen(_)
StrLen(s) == IF s = << >> THEN 0 ELSE Utf8Len(Head(s)) + StrLen(Tail(s))

\* &s[a..b] by byte offsets: Some(slice), or None where the slice panics
\* because a or b is not a char boundary.
RECURSIVE ByteSlice(_, _, _)
ByteSlice(s, a, b) ==
  IF a = 0 /\ b = 0 THEN Some(<< >>)
  ELSE IF s = << >> THEN None
  ELSE IF a > 0
    THEN IF Utf8Len(Head(s)) > a THEN None
         ELSE ByteSlice(Tail(s), a - Utf8Len(Head(s)), b - Utf8Len(Head(s)))
  ELSE IF Utf8Len(Head(s)) > b THEN None
  ELSE LET rest == ByteSlice(Tail(s), 0, b - Utf8Len(Head(s)))
       IN IF rest = None THEN None ELSE Some(<<Head(s)>> \o Unwrap(rest))

(***************************************************************************)
(* Colors                                                                  *)
(***************************************************************************)
\* enum Color: the fields a variant does not use are 0.
ColorNone == [kind |-> "None", a |-> 0, b |-> 0, c |-> 0]
Color4(hue, bright) ==
  [kind |-> "Color4", a |-> hue, b |-> IF bright THEN 1 ELSE 0, c |-> 0]
Color256(n) == [kind |-> "Color256", a |-> n, b |-> 0, c |-> 0]
RGB(r, g, b) == [kind |-> "RGB", a |-> r, b |-> g, c |-> b]

\* Color::from_char_builtin
ColorFromCharBuiltin(ch) ==
  IF ch \in 48..55 THEN Color4(ch - 48, FALSE)
  ELSE IF ch \in 56..57 THEN Color4(ch - 56, TRUE)
  ELSE IF ch \in 97..102 THEN Color4(ch - 97 + 2, TRUE)
  ELSE ColorNone

\* Results: [ok, err, val], and the outcome of a slice that panics.
Ok(v) == [ok |-> TRUE, err |-> "", val |-> v]
Err(e) == [ok |-> FALSE, err |-> e, val |-> << >>]
Panic == [ok |-> FALSE, err |-> "panic", val |-> << >>]

\* The hex branch of Color::from_str
ColorFromHex(s) ==
  IF StrLen(s) # 6 THEN Err("ColorParsing")
  ELSE LET rs == ByteSlice(s, 0, 2)
           r  == IF rs = None THEN None ELSE from_str_radix(Unwrap(rs), 16)
           gs == ByteSlice(s, 2, 4)
           g  == IF gs = None THEN None ELSE from_str_radix(Unwrap(gs), 16)
           bs == ByteSlice(s, 4, 6)
           b  == IF bs = None THEN None ELSE from_str_radix(Unwrap(bs), 16)
       IN IF rs = None THEN Panic
          ELSE IF r = None THEN Err("ColorParsing")
          ELSE IF gs = None THEN Panic
          ELSE IF g = None THEN Err("ColorParsing")
          ELSE IF bs = None THEN Panic
          ELSE IF b = None THEN Err("ColorParsing")
          ELSE Ok(RGB(Unwrap(r), Unwrap(g), Unwrap(b)))

\* impl FromStr for Color
ColorFromStr(str) ==
  LET s == ToLower(Trim(str))
  IN IF \E h \in 1..8 : s = HueNames[h]
       THEN Ok(Color4((CHOOSE h \in 1..8 : s = HueNames[h]) - 1, FALSE))
     ELSE IF s = Lit.gray \/ s = Lit.grey THEN Ok(Color4(0, TRUE))
     ELSE IF \E h \in 1..8 : s = Lit.bright \o HueNames[h]
       THEN Ok(Color4((CHOOSE h \in 1..8 : s = Lit.bright \o HueNames[h]) - 1, TRUE))
     ELSE IF from_str_radix(s, 10) # None
       THEN Ok(Color256(Unwrap(from_str_radix(s, 10))))
     ELSE ColorFromHex(s)

\* impl Display for Color
ColorToString(col) ==
  IF col.kind = "None" THEN << >>
  ELSE IF col.kind = "Color4"
    THEN (IF col.b = 1 THEN Lit.bright ELSE << >>) \o HueNames[col.a + 1]
  ELSE IF col.kind = "Color256" THEN FmtDec(col.a)
  ELSE FmtHex2(col.a) \o FmtHex2(col.b) \o FmtHex2(col.c)

\* A reading of to_ansi in which the bright colors start at 60 and 70
to_ansi_low_bright(col, is_fg) ==
  IF col.kind = "Color4" /\ col.b = 1
    THEN <<27, 91>> \o FmtDec((IF is_fg THEN 60 ELSE 70) + col.a) \o <<109>>
  ELSE <<27, 91>> \o FmtDec(IF is_fg THEN 39 ELSE 49) \o <<109>>
\* Color::to_ansi: ESC "[" ... "m"
to_ansi(col, is_fg) ==
  IF col.kind = "None"
    THEN <<27, 91>> \o FmtDec(IF is_fg THEN 39 ELSE 49) \o <<109>>
  ELSE IF col.kind = "Color4"
    THEN IF col.b = 1
           THEN <<27, 91>> \o FmtDec((IF is_fg THEN 90 ELSE 100) + col.a) \o <<109>>
           ELSE <<27, 91>> \o FmtDec((IF is_fg THEN 30 ELSE 40) + col.a) \o <<109>>
  ELSE IF col.kind = "Color256"
    THEN <<27, 91>> \o (IF is_fg THEN <<51, 56>> ELSE <<52, 56>>)
         \o <<59, 53, 59>> \o FmtDec(col.a) \o <<109>>
  ELSE <<27, 91>> \o (IF is_fg THEN <<51, 56>> ELSE <<52, 56>>)
       \o <<59, 50, 59>> \o FmtDec(col.a) \o <<59>> \o FmtDec(col.b)
       \o <<59>> \o FmtDec(col.c) \o <<109>>

\* struct ColorPair, ColorPair::default, ColorPair::from_char_builtin
ColorPair(fg, bg) == [fg |-> fg, bg |-> bg]
DefaultPair == ColorPair(ColorNone, ColorNone)
PairFromCharBuiltin(ch) == ColorPair(ColorFromCharBuiltin(ch), ColorNone)

\* impl Display for ColorPair
PairToString(pair) ==
  IF pair.fg = ColorNone /\ pair.bg = ColorNone THEN << >>
  ELSE IF pair.fg = ColorNone THEN Lit.bg \o ColorToString(pair.bg)
  ELSE IF pair.bg = ColorNone THEN Lit.fg \o ColorToString(pair.fg)
  ELSE Lit.fg \o ColorToString(pair.fg) \o <<32>> \o Lit.bg \o ColorToString(pair.bg)

\* The loop of ColorPair::from_str over the pieces of s.split(" "):
\* Ok(pair) or the error that ends it.
RECURSIVE PairFromPieces(_, _, _, _)
RECURSIVE PairTakeColor(_, _, _, _, _, _)
\* The `?` on the color of a piece, then the rest of the loop
PairTakeColor(col, is_fg, pieces, pair, fg_oc, bg_oc) ==
  IF ~col.ok THEN col
  ELSE IF is_fg
    THEN PairFromPieces(Tail(pieces), [pair EXCEPT !.fg = col.val], TRUE, bg_oc)
  ELSE PairFromPieces(Tail(pieces), [pair EXCEPT !.bg = col.val], fg_oc, TRUE)
PairFromPieces(pieces, pair, fg_oc, bg_oc) ==
  IF pieces = << >> THEN Ok(pair)
  ELSE LET ss == Trim(Head(pieces))
       IN IF ss = << >> THEN PairFromPieces(Tail(pieces), pair, fg_oc, bg_oc)
          ELSE IF StartsWith(ss, Lit.fg)
            THEN IF fg_oc THEN Err("ColorDuplicate")
                 ELSE PairTakeColor(ColorFromStr(Unwrap(StripPrefix(ss, Lit.fg))),
                                    TRUE, pieces, pair, fg_oc, bg_oc)
          ELSE IF StartsWith(ss, Lit.bg)
            THEN IF bg_oc THEN Err("ColorDuplicate")
                 ELSE PairTakeColor(ColorFromStr(Unwrap(StripPrefix(ss, Lit.bg))),
                                    FALSE, pieces, pair, fg_oc, bg_oc)
          ELSE Err("ColorParsing")

\* impl FromStr for ColorPair
PairFromStr(s) == PairFromPieces(Split(s), DefaultPair, FALSE, FALSE)

(***************************************************************************)
(* Palette: the OrderMap as the sequence of its entries in insertion order *)
(***************************************************************************)
PaletteEntry(name, pair, comments) ==
  [name |-> name, pair |-> pair, comments |-> comments]

\* Index of the entry of a key, 0 if there is none (OrderMap::get_index_of).
RECURSIVE PaletteIndex(_, _, _)
PaletteIndex(pal, name, i) ==
  IF i > Len(pal) THEN 0
  ELSE IF pal[i].name = name THEN i
  ELSE PaletteIndex(pal, name, i + 1)

\* Palette::contains_color
PaletteContains(pal, name) == PaletteIndex(pal, name, 1) # 0

\* A reading of insert that appends whether or not the key is present
PaletteInsert_append(pal, name, pair, comments) ==
  Append(pal, PaletteEntry(name, pair, comments))
\* OrderMap::insert: a present key keeps its place and takes the new value.
PaletteInsert(pal, name, pair, comments) ==
  LET i == PaletteIndex(pal, name, 1)
  IN IF i = 0 THEN Append(pal, PaletteEntry(name, pair, comments))
     ELSE [pal EXCEPT ![i] = PaletteEntry(name, pair, comments)]

\* Palette::remove_color (OrderMap::remove keeps the order of the rest)
PaletteRemove(pal, name) ==
  LET i == PaletteIndex(pal, name, 1)
  IN IF i = 0 THEN pal ELSE VecRemove(pal, i - 1)

\* Palette::search_color
RECURSIVE search_color(_, _, _)
search_color(pal, col, i) ==
  IF i > Len(pal) THEN None
  ELSE IF pal[i].pair = col THEN Some(pal[i].name)
  ELSE search_color(pal, col, i + 1)

\* Palette::get_color
get_color(pal, name) ==
  LET i == PaletteIndex(pal, name, 1)
  IN IF i # 0 THEN pal[i].pair ELSE PairFromCharBuiltin(name)

\* Palette::set_color
set_color(pal, name, col) ==
  IF PairFromCharBuiltin(name) = col THEN PaletteRemove(pal, name)
  ELSE PaletteInsert(pal, name, col, << >>)

\* Palette::add_parsing_color: Ok(palette) or ColorMapDup
add_parsing_color(pal, name, pair, comments) ==
  IF PaletteContains(pal, name) THEN Err("ColorMapDup")
  ELSE Ok(PaletteInsert(pal, name, pair, comments))

\* impl FromStr for Char: Ok(char), DisallowedChar or StrToCharConversion
CharFromStr(s) ==
  IF Len(s) = 1
    THEN IF check_char(s[1]) = None THEN Err("DisallowedChar")
         ELSE Ok(Unwrap(check_char(s[1])))
    ELSE Err("StrToCharConversion")

\* The `col` arm of Header::read_modern on the trimmed value of the line:
\* Ok(palette) or the error of the line.
read_col(pal, values, comments) ==
  LET pieces == Split(values)
      name   == CharFromStr(Head(pieces))
      pair   == PairFromStr(Join(Tail(pieces)))
  IN IF ~name.ok THEN name
     ELSE IF ~pair.ok THEN pair
     ELSE add_parsing_color(pal, name.val, pair.val, comments)

(***************************************************************************)
(* Delay: the global delay and the map per_frame of the overrides, a       *)
(* function from frame indices to delays                                   *)
(***************************************************************************)
\* Index of the first c of s from i on, 0 if there is none.
RECURSIVE Find(_, _, _)
Find(s, c, i) ==
  IF i > Len(s) THEN 0 ELSE IF s[i] = c THEN i ELSE Find(s, c, i + 1)
\* str::split_once(c): None, or Some of <<before, after>>
SplitOnce(s, c) ==
  LET i == Find(s, c, 1)
  IN IF i = 0 THEN None
     ELSE Some(<<SubSeq(s, 1, i - 1), SubSeq(s, i + 1, Len(s))>>)

\* str::parse::<usize>: an optional '+', then at least one decimal digit;
\* None for anything else.  The numerals read here stay far below 2^64, so
\* the overflow error is not in the model.
RECURSIVE UsizeDigits(_, _)
UsizeDigits(s, acc) ==
  IF s = << >> THEN Some(acc)
  ELSE IF Head(s) \in 48..57 THEN UsizeDigits(Tail(s), acc * 10 + Head(s) - 48)
  ELSE None
ParseUsize(s) ==
  IF s = << >> \/ s = <<43>> THEN None
  ELSE IF Head(s) = 43 THEN UsizeDigits(Tail(s), 0)
  ELSE UsizeDigits(s, 0)

\* Delay::get_global / get_frame / set_global / set_frame
DelayGetGlobal(d) == IF d.global = 0 THEN 50 ELSE d.global
DelayGetFrame(d, f) ==
  LET x == IF f \in DOMAIN d.per_frame THEN d.per_frame[f] ELSE d.global
  IN IF x = 0 THEN 50 ELSE x
DelaySetGlobal(d, global) == [d EXCEPT !.global = IF global = 0 THEN 50 ELSE global]
DelaySetFrame(d, f, delay) ==
  IF delay = 0
    THEN [d EXCEPT !.per_frame = [x \in (DOMAIN @) \ {f} |-> @[x]]]
    ELSE [d EXCEPT !.per_frame = (f :> delay) @@ @]

\* The loop of Delay::set_frames over the entries of per_frame, taken in
\* the order `order` of their frames (a HashMap fixes no order), from entry
\* i on: acc is [per_frame, last, diff]
RECURSIVE SetFramesLoop(_, _, _, _, _, _)
SetFramesLoop(d, count, global, order, i, acc) ==
  IF i > Len(order) THEN acc
  ELSE LET f == order[i]
           delay == d.per_frame[f]
       IN IF f < count
            THEN SetFramesLoop(d, count, global, order, i + 1,
                   [per_frame |-> IF delay # global
                                    THEN (f :> delay) @@ acc.per_frame
                                    ELSE acc.per_frame,
                    last |-> delay,
                    diff |-> acc.diff \/ (acc.last # 0 /\ acc.last # delay)])
            ELSE SetFramesLoop(d, count, global, order, i + 1, acc)
\* Delay::set_frames
DelaySetFrames(d, count, order) ==
  LET acc == SetFramesLoop(d, count, DelayGetGlobal(d), order, 1,
                           [per_frame |-> << >>, last |-> 0, diff |-> FALSE])
  IN IF acc.last # 0 /\ ~acc.diff /\ Cardinality(DOMAIN acc.per_frame) = count
       THEN [global |-> acc.last, per_frame |-> << >>]
       ELSE [global |-> DelayGetGlobal(d), per_frame |-> acc.per_frame]

\* The loop of Delay::from_str over the pieces of s.trim().split(" "); the
\* test that skips a piece looks at s, not at the piece
RECURSIVE DelayFromPieces(_, _, _, _)
DelayFromPieces(s, pieces, ret, delays) ==
  IF pieces = << >>
    THEN IF delays = 0 THEN Err("DelayLineVoid")
         ELSE Ok([ret EXCEPT !.global = IF @ = 0 THEN 50 ELSE @])
  ELSE IF s = << >> THEN DelayFromPieces(s, Tail(pieces), ret, delays)
  ELSE LET ss == Head(pieces)
           fd == SplitOnce(ss, 58)
       IN IF fd = None
            THEN IF ParseUsize(ss) = None THEN Err("GlobalDelayParsing")
                 ELSE DelayFromPieces(s, Tail(pieces),
                                      [ret EXCEPT !.global = Unwrap(ParseUsize(ss))],
                                      delays + 1)
          ELSE LET f == ParseUsize(Unwrap(fd)[1])
                   d == ParseUsize(Unwrap(fd)[2])
               IN IF f = None \/ d = None THEN Err("PerFrameDelayParsing")
                  ELSE IF Unwrap(f) \in DOMAIN ret.per_frame
                    THEN Err("PerFrameDelayDup")
                  ELSE DelayFromPieces(s, Tail(pieces),
                         [ret EXCEPT !.per_frame = (Unwrap(f) :> Unwrap(d)) @@ @],
                         delays + 1)
\* impl FromStr for Delay
DelayFromStr(s) ==
  DelayFromPieces(s, Split(Trim(s)), [global |-> 0, per_frame |-> << >>], 0)

\* impl Display for Delay: the global delay, then " frame:delay" for the
\* overrides in the order of the frames
RECURSIVE DelayPairs(_, _)
DelayPairs(d, fset) ==
  IF fset = {} THEN << >>
  ELSE LET f == CHOOSE x \in fset : \A y \in fset : x <= y
       IN <<32>> \o FmtDec(f) \o <<58>> \o FmtDec(d.per_frame[f])
          \o DelayPairs(d, fset \ {f})
DelayToString(d) == FmtDec(DelayGetGlobal(d)) \o DelayPairs(d, DOMAIN d.per_frame)

(***************************************************************************)
(* Header: its fields, the readers of the modern and of the legacy         *)
(* dialect and the writer.  The maps of authors are the sequences of their *)
(* entries in insertion order.                                             *)
(***************************************************************************)
\* Header::default
DefaultHeader ==
  [title |-> None, title_comments |-> << >>,
   orig_authors |-> << >>, authors |-> << >>,
   src |-> None, src_comments |-> << >>,
   editor |-> None, editor_comments |-> << >>,
   license |-> None, license_comments |-> << >>,
   delay |-> None, delay_comments |-> << >>,
   loop_flag |-> None, loop_comments |-> << >>,
   preview |-> None, preview_comments |-> << >>,
   colors |-> None, colors_comments |-> << >>,
   palette |-> << >>, tags |-> << >>, legacy |-> None, extra_keys |-> << >>,
   trailing_comments |-> << >>]

\* A reading of the colors key alone, the palette ignored
get_colors_key_only(h) == IsSome(h.colors) /\ Unwrap(h.colors)

\* Header::get_colors
get_colors(h) ==
  IF IsSome(h.colors) THEN Unwrap(h.colors)
  ELSE IF IsSome(h.legacy) THEN Unwrap(h.legacy).colors # "None"
  ELSE Len(h.palette) > 0

\* header_value_to_bool
header_value_to_bool(v) ==
  LET t == ToLower(Trim(v))
  IN IF t = Lit.yes \/ t = Lit.true THEN Ok(TRUE)
     ELSE IF t = Lit.no \/ t = Lit.false THEN Ok(FALSE)
     ELSE Err("HeaderFlagKey")

\* A reading of a scalar key in which a later line replaces an earlier one
ReadScalar_replace(h, field, cfield, values, buf) ==
  Ok([h EXCEPT ![field] = Some(values), ![cfield] = buf])

\* The arms "title", "src", "editor", "license" of Header::read_modern
ReadScalar(h, field, cfield, values, buf) ==
  IF IsSome(h[field]) THEN Err("HeaderKeyDup")
  ELSE Ok([h EXCEPT ![field] = Some(values), ![cfield] = buf])

\* The arms "loop", "colors"
ReadFlag(h, field, cfield, values, buf) ==
  IF IsSome(h[field]) THEN Err("HeaderKeyDup")
  ELSE LET b == header_value_to_bool(values)
       IN IF ~b.ok THEN b
          ELSE Ok([h EXCEPT ![field] = Some(b.val), ![cfield] = buf])

\* The arm "delay"
ReadDelay(h, values, buf) ==
  IF IsSome(h.delay) THEN Err("HeaderKeyDup")
  ELSE LET d == DelayFromStr(values)
       IN IF ~d.ok THEN d
          ELSE Ok([h EXCEPT !.delay = Some(d.val), !.delay_comments = buf])

\* The arm "preview"
ReadPreview(h, values, buf) ==
  IF IsSome(h.preview) THEN Err("HeaderKeyDup")
  ELSE IF ParseUsize(values) = None THEN Err("PreviewParsing")
  ELSE Ok([h EXCEPT !.preview = ParseUsize(values), !.preview_comments = buf])

\* The arms "orig-author", "author": an OrderMap of names to comments
RECURSIVE AuthorIndex(_, _, _)
AuthorIndex(m, name, i) ==
  IF i > Len(m) THEN 0
  ELSE IF m[i].name = name THEN i ELSE AuthorIndex(m, name, i + 1)
\* A reading that replaces the comments of an author named again
ReadAuthor_overwrite(m, values, buf) ==
  LET i == AuthorIndex(m, values, 1)
  IN IF i # 0 THEN [m EXCEPT ![i].comments = buf]
     ELSE Append(m, [name |-> values, comments |-> buf])
ReadAuthor(m, values, buf) ==
  LET i == AuthorIndex(m, values, 1)
  IN IF i # 0 THEN [m EXCEPT ![i].comments = @ \o buf]
     ELSE Append(m, [name |-> values, comments |-> buf])

\* OrderSet::insert of every element of xs in turn: an element already in
\* the set keeps its place
RECURSIVE InsertAll(_, _)
InsertAll(set, xs) ==
  IF xs = << >> THEN set
  ELSE InsertAll(IF \E i \in 1..Len(set) : set[i] = Head(xs)
                   THEN set ELSE Append(set, Head(xs)),
                 Tail(xs))

\* impl FromStr for Tagline: the pieces between spaces that start with "#",
\* without the "#"
RECURSIVE HashPieces(_)
HashPieces(pieces) ==
  IF pieces = << >> THEN << >>
  ELSE (IF StartsWith(Head(pieces), Lit.hash)
          THEN <<Unwrap(StripPrefix(Head(pieces), Lit.hash))>> ELSE << >>)
       \o HashPieces(Tail(pieces))
TaglineFromStr(s) ==
  [tags |-> InsertAll(<< >>, HashPieces(Split(s))), comments |-> << >>]

\* A tag line of Header::read_modern: its tags join the last tag line when
\* there is one and no comment is pending, else a tag line is started
ReadTag(h, line, buf) ==
  LET tl == Len(h.tags)
  IN IF tl > 0 /\ Len(buf) = 0
       THEN [h EXCEPT !.tags[tl].tags = InsertAll(@, TaglineFromStr(line).tags)]
       ELSE [h EXCEPT !.tags =
               Append(@, [TaglineFromStr(line) EXCEPT !.comments = buf])]

\* Header::contains_tag / tags
contains_tag(h, tag) ==
  \E i \in 1..Len(h.tags) : \E j \in 1..Len(h.tags[i].tags) : h.tags[i].tags[j] = tag
HeaderTags(h) ==
  UNION {{h.tags[i].tags[j] : j \in 1..Len(h.tags[i].tags)} : i \in 1..Len(h.tags)}
\* A reading of add_tag that does not look for the tag in the tag lines
add_tag_unchecked(h, tag) ==
  LET t == normalize_text(tag)
  IN IF StrLen(t) < 1 THEN h
     ELSE IF Len(h.tags) > 0 THEN [h EXCEPT !.tags[1].tags = InsertAll(@, <<t>>)]
     ELSE [h EXCEPT !.tags = <<[tags |-> <<t>>, comments |-> << >>]>>]
\* Header::add_tag
add_tag(h, tag) ==
  LET t == normalize_text(tag)
  IN IF StrLen(t) < 1 THEN h
     ELSE IF contains_tag(h, t) THEN h
     ELSE IF Len(h.tags) > 0 THEN [h EXCEPT !.tags[1].tags = InsertAll(@, <<t>>)]
     ELSE [h EXCEPT !.tags = <<[tags |-> <<t>>, comments |-> << >>]>>]

\* One key line of Header::read_modern (not a comment, not a tag line):
\* Ok(header) or the error returned.
read_modern_key(h, line, buf) ==
  LET kv == split_once(line)
      key == Trim(Unwrap(kv)[1])
      values == Trim(Unwrap(kv)[2])
  IN IF kv = None THEN Err("HeaderKeyWithoutValue")
     ELSE IF key = Lit.title THEN ReadScalar(h, "title", "title_comments", values, buf)
     ELSE IF key = Lit.orig_author
       THEN Ok([h EXCEPT !.orig_authors = ReadAuthor(@, values, buf)])
     ELSE IF key = Lit.author
       THEN Ok([h EXCEPT !.authors = ReadAuthor(@, values, buf)])
     ELSE IF key = Lit.src THEN ReadScalar(h, "src", "src_comments", values, buf)
     ELSE IF key = Lit.editor THEN ReadScalar(h, "editor", "editor_comments", values, buf)
     ELSE IF key = Lit.license
       THEN ReadScalar(h, "license", "license_comments", values, buf)
     ELSE IF key = Lit.delay THEN ReadDelay(h, values, buf)
     ELSE IF key = Lit.loop THEN ReadFlag(h, "loop_flag", "loop_comments", values, buf)
     ELSE IF key = Lit.preview THEN ReadPreview(h, values, buf)
     ELSE IF key = Lit.colors
       THEN ReadFlag(h, "colors", "colors_comments", values, buf)
     ELSE IF key = Lit.col
       THEN LET pal == read_col(h.palette, values, buf)
            IN IF ~pal.ok THEN pal ELSE Ok([h EXCEPT !.palette = pal.val])
     ELSE Ok([h EXCEPT !.extra_keys =
                Append(@, [line |-> key \o <<32>> \o values, comments |-> buf])])

\* Header::read_modern from line `pos` of the input on:
\* [ok, err, val: the header, pos: the first line not consumed]
RECURSIVE read_modern(_, _, _, _)
RECURSIVE read_modern_next(_, _, _, _)
\* The `?` on the outcome k of a key line, then the next line
read_modern_next(lines, pos, h, k) ==
  IF ~k.ok THEN [ok |-> FALSE, err |-> k.err, val |-> h, pos |-> pos]
  ELSE read_modern(lines, pos + 1, k.val, << >>)
read_modern(lines, pos, h, buf) ==
  IF pos > Len(lines)
    THEN [ok |-> TRUE, err |-> "", val |-> [h EXCEPT !.trailing_comments = buf],
          pos |-> pos]
  ELSE LET line == normalize_text(lines[pos])
       IN IF line = << >>
            THEN [ok |-> TRUE, err |-> "",
                  val |-> [h EXCEPT !.trailing_comments = buf], pos |-> pos + 1]
          ELSE IF line = Lit.at3a THEN read_modern(lines, pos + 1, h, buf)
          ELSE IF StartsWith(line, Lit.comment)
            THEN read_modern(lines, pos + 1, h,
                             Append(buf, Trim(Unwrap(StripPrefix(line, Lit.comment)))))
          ELSE IF StartsWith(line, Lit.hash)
            THEN read_modern(lines, pos + 1, ReadTag(h, line, buf), << >>)
          ELSE read_modern_next(lines, pos, h, read_modern_key(h, line, buf))

\* LegacyHeaderInfo::default, and the info of a header or the default one
DefaultLegacy == [colors |-> "None", width |-> 0, height |-> 0]
LegacyOf(h) == IF IsSome(h.legacy) THEN Unwrap(h.legacy) ELSE DefaultLegacy
\* Header::set_legacy_mode_str / set_legacy_width / set_legacy_height
set_legacy_mode_str(h, mode) ==
  LET m == ToLower(Trim(mode))
      cm == IF m = Lit.none THEN "None"
            ELSE IF m = Lit.fg_only THEN "FgOnly"
            ELSE IF m = Lit.bg_only THEN "BgOnly"
            ELSE IF m = Lit.full THEN "FgAndBg"
            ELSE "None"
  IN [h EXCEPT !.legacy = Some([LegacyOf(h) EXCEPT !.colors = cm])]
set_legacy_width(h, width) ==
  [h EXCEPT !.legacy = Some([LegacyOf(h) EXCEPT !.width = width])]
set_legacy_height(h, height) ==
  [h EXCEPT !.legacy = Some([LegacyOf(h) EXCEPT !.height = height])]

\* One key line of Header::read_legacy (not a comment, not a tag line, not
\* a "utf8" line): Ok(header) or the error returned.
read_legacy_key(h, line, buf) ==
  LET kv == split_once(line)
      key == Trim(Unwrap(kv)[1])
      values == Trim(Unwrap(kv)[2])
  IN IF kv = None THEN Err("HeaderKeyWithoutValue")
     ELSE IF key = Lit.title THEN ReadScalar(h, "title", "title_comments", values, buf)
     ELSE IF key = Lit.author
       THEN Ok([h EXCEPT !.authors = ReadAuthor(@, values, buf)])
     ELSE IF key = Lit.loop THEN ReadFlag(h, "loop_flag", "loop_comments", values, buf)
     ELSE IF key = Lit.preview THEN ReadPreview(h, values, buf)
     ELSE IF key = Lit.delay THEN ReadDelay(h, values, buf)
     ELSE IF key = Lit.colors THEN Ok(set_legacy_mode_str(h, values))
     ELSE IF key = Lit.width
       THEN IF ParseUsize(values) = None THEN Err("PreviewParsing")
            ELSE Ok(set_legacy_width(h, Unwrap(ParseUsize(values))))
     ELSE IF key = Lit.height
       THEN IF ParseUsize(values) = None THEN Err("PreviewParsing")
            ELSE Ok(set_legacy_height(h, Unwrap(ParseUsize(values))))
     ELSE Ok([h EXCEPT !.extra_keys =
                Append(@, [line |-> key \o <<32>> \o values, comments |-> buf])])

\* Header::read_legacy from line `pos` on of the first line chained with
\* the rest of the input: [ok, err, val: the header, pos: the first line not
\* consumed].  A line is cut at its first tab; a line that starts with a
\* tab is a comment.
RECURSIVE read_legacy(_, _, _, _)
RECURSIVE read_legacy_next(_, _, _, _)
RECURSIVE read_legacy_line(_, _, _, _, _)
\* The `?` on the outcome k of a key line, then the next line
read_legacy_next(lines, pos, h, k) ==
  IF ~k.ok THEN [ok |-> FALSE, err |-> k.err, val |-> h, pos |-> pos]
  ELSE read_legacy(lines, pos + 1, k.val, << >>)
\* The line at pos after the cut at the tab, normalised
read_legacy_line(lines, pos, h, buf, line) ==
  IF line = << >>
    THEN [ok |-> TRUE, err |-> "",
          val |-> [h EXCEPT !.trailing_comments = buf], pos |-> pos + 1]
  ELSE IF StartsWith(line, Lit.at)
    THEN read_legacy(lines, pos + 1, h,
                     Append(buf, Trim(Unwrap(StripPrefix(line, Lit.at)))))
  ELSE IF StartsWith(line, Lit.hash)
    THEN read_legacy(lines, pos + 1, ReadTag(h, line, buf), << >>)
  ELSE IF StartsWith(line, Lit.utf8) THEN read_legacy(lines, pos + 1, h, buf)
  ELSE read_legacy_next(lines, pos, h, read_legacy_key(h, line, buf))
read_legacy(lines, pos, h, buf) ==
  IF pos > Len(lines)
    THEN [ok |-> TRUE, err |-> "", val |-> [h EXCEPT !.trailing_comments = buf],
          pos |-> pos]
  ELSE IF lines[pos] = << >>
    THEN [ok |-> TRUE, err |-> "",
          val |-> [h EXCEPT !.trailing_comments = buf], pos |-> pos + 1]
  ELSE LET ab == SplitOnce(lines[pos], 9)
       IN IF ab # None /\ Unwrap(ab)[1] = << >>
            THEN read_legacy(lines, pos + 1, h,
                             Append(buf, Trim(normalize_text(Unwrap(ab)[2]))))
          ELSE read_legacy_line(lines, pos, h, buf,
                 normalize_text(IF ab # None THEN Unwrap(ab)[1] ELSE lines[pos]))

\* A reading of the legacy dialect that starts behind the first line
HeaderRead_skip_first(lines) ==
  IF lines # << >> /\ lines[1] = Lit.at3a
    THEN read_modern(lines, 2, DefaultHeader, << >>)
    ELSE read_legacy(lines, 2, DefaultHeader, << >>)

\* Header::read: the modern reader behind a first line "@3a", else the
\* legacy reader on the first line and the rest; an input with no line is
\* read as the legacy header "@"
HeaderRead(lines) ==
  IF lines # << >>
    THEN IF lines[1] = Lit.at3a THEN read_modern(lines, 2, DefaultHeader, << >>)
         ELSE read_legacy(lines, 1, DefaultHeader, << >>)
    ELSE read_legacy(<<Lit.at>>, 1, DefaultHeader, << >>)

\* write_comments: a line ";;c" per comment
write_comments(comments) ==
  [i \in 1..Len(comments) |-> Lit.comment \o comments[i]]

\* impl Display for Palette: the lines written
RECURSIVE PaletteLines(_)
PaletteLines(pal) ==
  IF pal = << >> THEN << >>
  ELSE [i \in 1..Len(pal[1].comments) |-> Lit.comment \o <<32>> \o pal[1].comments[i]]
       \o <<Lit.col \o <<32, pal[1].name, 32>> \o PairToString(pal[1].pair)>>
       \o PaletteLines(Tail(pal))

\* The lines written for an optional string key and for the author maps
ScalarLines(key, value, comments) ==
  IF IsSome(value)
    THEN write_comments(comments) \o <<key \o <<32>> \o Unwrap(value)>>
    ELSE << >>
RECURSIVE AuthorLines(_, _)
AuthorLines(key, m) ==
  IF m = << >> THEN << >>
  ELSE write_comments(m[1].comments) \o <<key \o <<32>> \o m[1].name>>
       \o AuthorLines(key, Tail(m))

\* impl Display for Tagline: the comments, then the tags, a line being
\* ended at the last tag and once it holds 80 bytes or more
RECURSIVE TagLineText(_, _, _, _)
TagLineText(tags, n, cur, linelen) ==
  IF n >= Len(tags) THEN << >>
  ELSE IF n + 1 < Len(tags) /\ linelen + StrLen(tags[n + 1]) + 2 < 80
    THEN TagLineText(tags, n + 1, cur \o Lit.hash \o tags[n + 1] \o <<32>>,
                     linelen + StrLen(tags[n + 1]) + 2)
  ELSE <<cur \o Lit.hash \o tags[n + 1]>> \o TagLineText(tags, n + 1, << >>, 0)
RECURSIVE TagLines(_)
TagLines(tags) ==
  IF tags = << >> THEN << >>
  ELSE [i \in 1..Len(tags[1].comments) |->
          Lit.comment \o <<32>> \o tags[1].comments[i]]
       \o TagLineText(tags[1].tags, 0, << >>, 0)
       \o TagLines(Tail(tags))

\* Header::fmt_with_colors: the lines written
HeaderLines(h, colors_exist) ==
  <<Lit.at3a>>
  \o ScalarLines(Lit.title, h.title, h.title_comments)
  \o AuthorLines(Lit.orig_author, h.orig_authors)
  \o AuthorLines(Lit.author, h.authors)
  \o ScalarLines(Lit.src, h.src, h.src_comments)
  \o ScalarLines(Lit.editor, h.editor, h.editor_comments)
  \o ScalarLines(Lit.license, h.license, h.license_comments)
  \o (IF IsSome(h.delay)
        THEN write_comments(h.delay_comments)
             \o <<Lit.delay \o <<32>> \o DelayToString(Unwrap(h.delay))>>
        ELSE << >>)
  \o (IF IsSome(h.loop_flag)
        THEN write_comments(h.loop_comments)
             \o <<Lit.loop \o <<32>> \o (IF Unwrap(h.loop_flag) THEN Lit.yes ELSE Lit.no)>>
        ELSE << >>)
  \o (IF IsSome(h.preview)
        THEN write_comments(h.preview_comments)
             \o <<Lit.preview \o <<32>> \o FmtDec(Unwrap(h.preview))>>
        ELSE << >>)
  \o (IF IsSome(h.colors)
        THEN IF Unwrap(h.colors)
               THEN IF Len(h.palette) > 0 THEN PaletteLines(h.palette)
                    ELSE <<Lit.colors_yes>>
               ELSE << >>
        ELSE IF colors_exist
          THEN IF Len(h.palette) > 0 THEN PaletteLines(h.palette)
               ELSE <<Lit.colors_yes>>
        ELSE PaletteLines(h.palette))
  \o TagLines(h.tags)
  \o write_comments(h.trailing_comments)
  \o << << >> >>

(***************************************************************************)
(* Documents: an Art is a header, the frames, the attached line and the    *)
(* extra blocks; a text is the sequence of its lines.                      *)
(***************************************************************************)
\* struct Art
MkArt(h, s, attached, extra) ==
  [header |-> h, frames |-> s, attached |-> attached, extra |-> extra]

\* Art::new
ArtNew(n, width, height, fill) ==
  MkArt(DefaultHeader, FramesNew(n, width, height, fill), None, << >>)

\* Art::color
ArtColor(a) ==
  IF IsSome(a.header.colors) THEN Unwrap(a.header.colors)
  ELSE FramesColor(a.frames) \/ Len(a.header.palette) > 0

\* The cell that Frame::read_text / read_color / read_both builds from
\* column i of a line of the block
ReadCell(kind, line, i) ==
  IF kind = "text" THEN MkCell(line[i], None)
  ELSE IF kind = "color" THEN MkCell(SPACE, Some(line[i]))
  ELSE MkCell(line[i], Some(line[(Len(line) \div 2) + i]))

\* Frame::read_text / read_color / read_both from line `pos` on, the rows
\* read so far being `rows` of width `width`: [ok, err, frame, pos]
RECURSIVE ReadFrame(_, _, _, _, _)
ReadFrame(kind, lines, pos, width, rows) ==
  LET done(p) == [ok |-> TRUE, err |-> "", pos |-> p,
                  frame |-> recalc_colors([color |-> 0, width |-> width,
                                           rows |-> rows])]
      fail == [ok |-> FALSE, err |-> "WidthMismatch", pos |-> pos,
               frame |-> [color |-> 0, width |-> width, rows |-> rows]]
  IN IF pos > Len(lines) THEN done(pos)
     ELSE LET line == normalize_text(lines[pos])
              w == IF kind = "both" THEN Len(line) \div 2 ELSE Len(line)
          IN IF line = << >> THEN done(pos + 1)
             ELSE IF width # 0 /\ w # width THEN fail
             ELSE IF kind = "both" /\ Len(line) % 2 # 0 THEN fail
             ELSE ReadFrame(kind, lines, pos + 1, w,
                            Append(rows, [i \in 1..w |-> ReadCell(kind, line, i)]))

\* Frame::fmt_text, fmt_colors and fmt_both: the lines written
CellColorChar(cell) == IF cell.color = None THEN UNDERSCORE ELSE Unwrap(cell.color)
fmt_text(f) ==
  [r \in 1..Len(f.rows) |-> [c \in 1..Len(f.rows[r]) |-> f.rows[r][c].text]]
fmt_colors(f) ==
  [r \in 1..Len(f.rows) |->
     [c \in 1..Len(f.rows[r]) |-> CellColorChar(f.rows[r][c])]]
fmt_both(f) ==
  [r \in 1..Len(f.rows) |-> fmt_text(f)[r] \o fmt_colors(f)[r]]
FmtFrame(kind, f) ==
  IF kind = "text" THEN fmt_text(f)
  ELSE IF kind = "color" THEN fmt_colors(f) ELSE fmt_both(f)

\* Frames::read_body: which of read_body_text / _color / _both it calls
body_kind(s, h) ==
  IF ~get_colors(h) THEN "text"
  ELSE IF s.color_pin # None THEN "text"
  ELSE IF s.text_pin # None THEN "color"
  ELSE "both"

\* Frames::read_body_text / _color / _both: frames are read up to the
\* first empty one, then merge is called: [ok, err, fs, pos]
RECURSIVE read_body(_, _, _, _)
read_body(s, kind, lines, pos) ==
  LET r == ReadFrame(kind, lines, pos, 0, << >>)
  IN IF ~r.ok THEN [ok |-> FALSE, err |-> r.err, fs |-> s, pos |-> r.pos]
     ELSE IF FrameWidth(r.frame) = 0 \/ FrameHeight(r.frame) = 0
       THEN LET m == merge(s)
            IN [ok |-> m.ok, err |-> m.err, fs |-> m.fs, pos |-> r.pos]
     ELSE LET k == check_frame(s, r.frame)
          IN IF ~k.ok THEN [ok |-> FALSE, err |-> k.err, fs |-> s, pos |-> r.pos]
             ELSE read_body([k.fs EXCEPT !.frames = Append(@, r.frame)],
                            kind, lines, r.pos)

\* next_block: empty lines are skipped; [ok, err, name: Some(block name) or
\* None at the end of the input, pos]
RECURSIVE next_block(_, _)
next_block(lines, pos) ==
  IF pos > Len(lines) THEN [ok |-> TRUE, err |-> "", name |-> None, pos |-> pos]
  ELSE LET line == normalize_text(lines[pos])
       IN IF line = << >> THEN next_block(lines, pos + 1)
          ELSE IF StartsWith(line, Lit.at)
            THEN [ok |-> TRUE, err |-> "", pos |-> pos + 1,
                  name |-> Some(Unwrap(StripPrefix(line, Lit.at)))]
          ELSE [ok |-> FALSE, err |-> "BlockExpected", name |-> None, pos |-> pos]

\* ExtraBlock::read: the normalised lines up to the first empty one
RECURSIVE ExtraRead(_, _, _)
ExtraRead(lines, pos, content) ==
  IF pos > Len(lines) THEN [content |-> content, pos |-> pos]
  ELSE LET line == normalize_text(lines[pos])
       IN IF line = << >> THEN [content |-> content, pos |-> pos + 1]
          ELSE ExtraRead(lines, pos + 1, Append(content, line))

\* trans_color: the legacy color digit as the modern one
trans_color(c) ==
  LET from == <<48, 49, 50, 51, 52, 53, 54, 55, 56, 57, 97, 98, 99, 100, 101, 102>>
      to   == <<48, 52, 50, 54, 49, 53, 51, 55, 56, 99, 97, 101, 57, 100, 98, 102>>
  IN IF \E i \in 1..16 : from[i] = c
       THEN to[CHOOSE i \in 1..16 : from[i] = c] ELSE UNDERSCORE

\* LegacyScanMode::next
LegacyScanNext_skip_bg(mode, cm) ==
  IF mode = "Text" /\ cm \in {"FgOnly", "FgAndBg"} THEN "Fg"
  ELSE IF mode = "Text" /\ cm = "BgOnly" THEN "Bg"
  ELSE "Text"
LegacyScanNext(mode, cm) ==
  IF mode = "Text"
    THEN IF cm = "None" THEN "Text"
         ELSE IF cm = "FgOnly" THEN "Fg"
         ELSE IF cm = "BgOnly" THEN "Bg"
         ELSE "Fg"
  ELSE IF mode = "Fg" /\ cm = "FgAndBg" THEN "Bg"
  ELSE "Text"

\* The locals of Frames::read_legacy before the first line
LegacyScanInit(info) ==
  [frames |-> << >>,
   frame |-> [color |-> 0, width |-> info.width, rows |-> << >>],
   row |-> << >>, fg_len |-> 0, bg_len |-> 0, mode |-> "Text"]

\* The body of the loop over the characters of a line, for the character
\* c, up to the test of the height
LegacyScanMatch(info, sc, c) ==
  IF sc.mode = "Text"
    THEN LET row == Append(sc.row, MkCell(Unwrap(check_char(c)), None))
         IN IF Len(row) = info.width
              THEN IF info.colors = "None"
                     THEN [sc EXCEPT !.mode = LegacyScanNext(@, info.colors),
                                     !.frame.rows = Append(@, row), !.row = << >>]
                     ELSE [sc EXCEPT !.mode = LegacyScanNext(@, info.colors),
                                     !.row = row]
              ELSE [sc EXCEPT !.row = row]
  ELSE IF sc.mode = "Fg"
    THEN LET row == [sc.row EXCEPT ![sc.fg_len + 1].color =
                       Some(Unwrap(check_char(trans_color(c))))]
             s1 == [sc EXCEPT !.row = row, !.fg_len = @ + 1, !.frame.color = @ + 1]
         IN IF s1.fg_len = info.width
              THEN IF info.colors = "FgOnly"
                     THEN [s1 EXCEPT !.mode = LegacyScanNext(@, info.colors),
                                     !.fg_len = 0,
                                     !.frame.rows = Append(@, row), !.row = << >>]
                     ELSE [s1 EXCEPT !.mode = LegacyScanNext(@, info.colors),
                                     !.fg_len = 0]
              ELSE s1
  ELSE LET s1 == [sc EXCEPT !.bg_len = @ + 1]
       IN IF s1.bg_len = info.width
            THEN IF info.colors \in {"BgOnly", "FgAndBg"}
                   THEN [s1 EXCEPT !.mode = LegacyScanNext(@, info.colors),
                                   !.bg_len = 0,
                                   !.frame.rows = Append(@, sc.row), !.row = << >>]
                   ELSE [s1 EXCEPT !.mode = LegacyScanNext(@, info.colors),
                                   !.bg_len = 0]
            ELSE s1
\* A reading of that loop in which the frame at hand is kept after it has
\* joined the frames
LegacyScanChar_keep_frame(info, sc, c) ==
  LET s1 == LegacyScanMatch(info, sc, c)
  IN IF Len(s1.frame.rows) = info.height
       THEN [s1 EXCEPT !.frames = Append(@, s1.frame)]
       ELSE s1
\* One turn of that loop: a frame of `height` rows joins the frames
LegacyScanChar(info, sc, c) ==
  LET s1 == LegacyScanMatch(info, sc, c)
  IN IF Len(s1.frame.rows) = info.height
       THEN [s1 EXCEPT !.frames = Append(@, s1.frame),
                       !.frame = [color |-> 0, width |-> info.width, rows |-> << >>]]
       ELSE s1
RECURSIVE LegacyScanChars(_, _, _)
LegacyScanChars(info, sc, line) ==
  IF line = << >> THEN sc
  ELSE LegacyScanChars(info, LegacyScanChar(info, sc, Head(line)), Tail(line))

\* The characters of a line that the scanner reads: the line is cut at its
\* first tab, nothing is read from a line that starts with a tab, and the
\* rest is normalised.  normalize_text leaves no tab, so the comment flag
\* of the loop over the characters is never set.
LegacyLineChars(line) ==
  LET ab == SplitOnce(line, 9)
  IN IF ab # None THEN normalize_text(Unwrap(ab)[1]) ELSE normalize_text(line)
\* Frames::read_legacy on the lines from pos on: the frames completed
RECURSIVE LegacyScanLines(_, _, _, _)
LegacyScanLines(info, sc, lines, pos) ==
  IF pos > Len(lines) THEN sc
  ELSE LegacyScanLines(info, LegacyScanChars(info, sc, LegacyLineChars(lines[pos])),
                       lines, pos + 1)
FramesReadLegacy(info, lines, pos) ==
  [text_pin |-> None, color_pin |-> None, width |-> info.width,
   height |-> info.height,
   frames |-> LegacyScanLines(info, LegacyScanInit(info), lines, pos).frames]

\* The block loop of Art::from_lines, then Frames::merge: Ok(art) or the
\* error
RECURSIVE from_lines_loop(_, _, _)
from_lines_loop(a, lines, pos) ==
  LET b == next_block(lines, pos)
      name == Unwrap(b.name)
  IN IF ~b.ok THEN Err(b.err)
     ELSE IF b.name = None
       THEN LET m == merge(a.frames)
            IN IF m.ok THEN Ok([a EXCEPT !.frames = m.fs]) ELSE Err(m.err)
     ELSE IF name = Lit.attach
       THEN IF b.pos > Len(lines) THEN from_lines_loop(a, lines, b.pos)
            ELSE from_lines_loop([a EXCEPT !.attached = Some(lines[b.pos])],
                                 lines, b.pos + 1)
     ELSE IF name = Lit.text_pin
       THEN LET r == ReadFrame("text", lines, b.pos, 0, << >>)
            IN IF a.frames.text_pin # None THEN Err("BlockDup")
               ELSE IF ~r.ok THEN Err(r.err)
               ELSE from_lines_loop(
                      [a EXCEPT !.frames = read_text_pin(@, r.frame).fs], lines, r.pos)
     ELSE IF name = Lit.color_pin
       THEN LET r == ReadFrame("color", lines, b.pos, 0, << >>)
            IN IF a.frames.color_pin # None THEN Err("BlockDup")
               ELSE IF ~r.ok THEN Err(r.err)
               ELSE from_lines_loop(
                      [a EXCEPT !.frames = read_color_pin(@, r.frame).fs], lines, r.pos)
     ELSE IF name = Lit.body
       THEN LET r == read_body(a.frames, body_kind(a.frames, a.header), lines, b.pos)
            IN IF ~r.ok THEN Err(r.err)
               ELSE from_lines_loop([a EXCEPT !.frames = r.fs], lines, r.pos)
     ELSE LET e == ExtraRead(lines, b.pos, << >>)
          IN from_lines_loop([a EXCEPT !.extra =
                                Append(@, [title |-> name, content |-> e.content])],
                             lines, e.pos)

\* Art::from_lines: Ok(art) or the error; h is the outcome of Header::read
from_lines_header(h, lines) ==
  IF ~h.ok THEN Err(h.err)
  ELSE IF IsSome(h.val.legacy)
    THEN LET m == merge(FramesReadLegacy(Unwrap(h.val.legacy), lines, h.pos))
         IN IF m.ok THEN Ok(MkArt(h.val, m.fs, None, << >>)) ELSE Err(m.err)
  ELSE from_lines_loop(
         MkArt(h.val, [text_pin |-> None, color_pin |-> None, width |-> 0,
                       height |-> 0, frames |-> << >>], None, << >>),
         lines, h.pos)
from_lines(lines) == from_lines_header(HeaderRead(lines), lines)

\* Frames::fmt_body_text / _colors / _both: the lines written
RECURSIVE FmtFrameSeq(_, _)
FmtFrameSeq(kind, frames) ==
  IF frames = << >> THEN << >>
  ELSE FmtFrame(kind, frames[1]) \o << << >> >> \o FmtFrameSeq(kind, Tail(frames))
fmt_body(kind, s) == <<Lit.at \o Lit.body>> \o FmtFrameSeq(kind, s.frames)

\* Frames::fmt_pinned_text / fmt_pinned_colors
fmt_pinned(kind, s) ==
  <<Lit.at \o (IF kind = "text" THEN Lit.text_pin ELSE Lit.color_pin)>>
  \o (IF s.frames = << >> THEN << >>
      ELSE FmtFrame(kind, s.frames[1]) \o << << >> >>)

\* Frames::fmt_with_color
fmt_with_color(s, color) ==
  IF color
    THEN IF pinned(s)[2] THEN fmt_pinned("color", s) \o fmt_body("text", s)
         ELSE IF pinned(s)[1] THEN fmt_pinned("text", s) \o fmt_body("color", s)
         ELSE fmt_body("both", s)
    ELSE fmt_body("text", s)

\* impl Display for ExtraBlock, the content being lines each ended by a
\* line feed, as ExtraBlock::read builds it
RECURSIVE ExtraLines(_)
ExtraLines(extra) ==
  IF extra = << >> THEN << >>
  ELSE <<Lit.at \o extra[1].title>> \o extra[1].content \o << << >> >>
       \o ExtraLines(Tail(extra))

\* impl Display for Art: the lines written
ArtLines(a) ==
  HeaderLines(a.header, ArtColor(a))
  \o (IF IsSome(a.attached) /\ Unwrap(a.attached) # << >>
        THEN <<Lit.at \o Lit.attach, Unwrap(a.attached), << >> >>
        ELSE << >>)
  \o ExtraLines(a.extra)
  \o fmt_with_color(a.frames, ArtColor(a))

\* Art::contains_color without the frames
contains_color_palette_only(a, name) == PaletteContains(a.header.palette, name)

\* Art::contains_color
contains_color(a, name) ==
  PaletteContains(a.header.palette, name) \/ FramesContainsColor(a.frames, name)

\* The candidates of Art::free_color_name in the order it tries them: the
\* sets "ghij..zAB..Z", "_-+,.~?!@#$%^&*`<>()[]{}\"'\\|/:;" and
\* "_0123456789abcdef".  The sets after these are outside the model; no
\* state of the specifications uses up the first three.
FreeNames ==
  [i \in 1..20 |-> 102 + i] \o [i \in 1..26 |-> 64 + i]
  \o <<95, 45, 43, 44, 46, 126, 63, 33, 64, 35, 36, 37, 94, 38, 42, 96, 60, 62,
       40, 41, 91, 93, 123, 125, 34, 39, 92, 124, 47, 58, 59>>
  \o <<95>> \o [i \in 1..10 |-> 47 + i] \o [i \in 1..6 |-> 96 + i]

\* The first candidate from index i on that Char::new accepts and that is
\* not in use; 0 when the modelled candidates are used up
RECURSIVE FirstFree(_, _)
FirstFree(a, i) ==
  IF i > Len(FreeNames) THEN 0
  ELSE IF check_char(FreeNames[i]) # None
          /\ ~contains_color(a, Unwrap(check_char(FreeNames[i])))
    THEN Unwrap(check_char(FreeNames[i]))
  ELSE FirstFree(a, i + 1)

\* Art::free_color_name
free_color_name(a) == FirstFree(a, 1)

\* Art::set_color_map
set_color_map(a, name, col) == [a EXCEPT !.header.palette = set_color(@, name, col)]

\* A reading of remove_color_map that leaves the frames
remove_color_map_palette_only(a, name) ==
  [a EXCEPT !.header.palette = PaletteRemove(@, name)]
\* Art::remove_color_map
remove_color_map(a, name) ==
  [a EXCEPT !.header.palette = PaletteRemove(@, name),
            !.frames = FramesRemoveColor(@, name)]

\* A reading of search_or_create_color_map that never searches
search_or_create_always_new(a, col) ==
  [art |-> set_color_map(a, free_color_name(a), col), name |-> free_color_name(a)]
\* Art::search_or_create_color_map: [art, name]
search_or_create_color_map(a, col) ==
  IF search_color(a.header.palette, col, 1) # None
    THEN [art |-> a, name |-> Unwrap(search_color(a.header.palette, col, 1))]
    ELSE [art |-> set_color_map(a, free_color_name(a), col),
          name |-> free_color_name(a)]

(***************************************************************************)
(* Bounds and input sets                                                   *)
(***************************************************************************)
MaxW == 2
MaxH == 2
MaxSteps == 3

A == Ord["A"]
B == Ord["B"]
Ch1 == Ord["1"]

Widths == 0..MaxW
Heights == 0..MaxH
Texts == {SPACE, A}
ColorNames == {Ch1, UNDERSCORE}
OptColors == {None} \cup {Some(c) : c \in ColorNames}
Cells == {MkCell(t, c) : t \in Texts, c \in {None, Some(Ch1)}}
\* The strings handed to print: a letter; a letter, a tab (normalized to a
\* space) and U+0001 (rejected, skipped).
PrintLines == {<<A>>, <<A, 9, 1>>}
\* The index sequences handed to fill_area.
IndexSeqs(n) == {<<0>>, <<n, 0>>} \cup (IF n >= 1 THEN {<<0, 1>>} ELSE {})

(***************************************************************************)
(* A single Frame under its public mutations                               *)
(***************************************************************************)
FrameInit ==
  /\ \E w \in Widths, h \in Heights, fill \in Cells : frame = FrameNew(w, h, fill)
  /\ fs = << >>
  /\ art = << >>
  /\ doc = << >>
  /\ tok = << >>
  /\ op = "new"
  /\ pre = << >>
  /\ res = << >>
  /\ steps = 0

FrameStep(f, name) ==
  /\ steps < MaxSteps
  /\ frame' = f
  /\ op' = name
  /\ pre' = << >>
  /\ steps' = steps + 1
  /\ UNCHANGED <<fs, art, doc, tok, res>>

\* Frame::set; pre keeps the frame before the call and the arguments
FSet ==
  \E c \in Widths, r \in Heights, cell \in Cells :
    /\ steps < MaxSteps
    /\ frame' = FrameSet(frame, c, r, cell)
    /\ pre' = [frame |-> frame, column |-> c, row |-> r, new |-> cell]
    /\ op' = "set"
    /\ steps' = steps + 1
    /\ UNCHANGED <<fs, art, doc, tok, res>>
\* Frame::fill / fill_text / fill_color
FFill ==
  \/ \E cell \in Cells : FrameStep(FrameFill(frame, cell), "fill")
  \/ \E t \in Texts : FrameStep(FrameFillText(frame, t), "fill_text")
  \/ \E c \in OptColors : FrameStep(FrameFillColor(frame, c), "fill_color")
FFillArea ==
  \E cs \in IndexSeqs(MaxW), rs \in IndexSeqs(MaxH), cell \in Cells :
    FrameStep(FrameFillArea(frame, cs, rs, cell), "fill_area")
FPrint ==
  \E c \in Widths, r \in Heights, line \in PrintLines,
     color \in {None} \cup {Some(o) : o \in OptColors} :
    FrameStep(FramePrint(frame, c, r, line, color), "print")
FClean == FrameStep(FrameClean(frame), "clean")
\* Frame::shift_left / shift_right / shift_up / shift_down
FShift ==
  \/ \E k \in 0..(MaxW + 1), cell \in Cells :
       \/ FrameStep(FrameShiftLeft(frame, k, cell), "shift_left")
       \/ FrameStep(FrameShiftRight(frame, k, cell), "shift_right")
  \/ \E k \in 0..(MaxH + 1), cell \in Cells :
       \/ FrameStep(FrameShiftUp(frame, k, cell), "shift_up")
       \/ FrameStep(FrameShiftDown(frame, k, cell), "shift_down")
\* Frame::resize / resize_width / resize_height
FResize ==
  \/ \E w \in Widths, h \in Heights, cell \in Cells :
       FrameStep(FrameResize(frame, w, h, cell), "resize")
  \/ \E w \in Widths, cell \in Cells :
       FrameStep(FrameResizeWidth(frame, w, cell), "resize_width")
  \/ \E h \in Heights, cell \in Cells :
       FrameStep(FrameResizeHeight(frame, h, cell), "resize_height")
\* Frame::adjust / adjust_width / adjust_height
FAdjust ==
  \/ \E w \in Widths, h \in Heights, cell \in Cells :
       FrameStep(FrameAdjust(frame, w, h, cell), "adjust")
  \/ \E w \in Widths, cell \in Cells :
       FrameStep(FrameAdjustWidth(frame, w, cell), "adjust_width")
  \/ \E h \in Heights, cell \in Cells :
       FrameStep(FrameAdjustHeight(frame, h, cell), "adjust_height")
FRemoveColor ==
  \E c \in ColorNames : FrameStep(FrameRemoveColor(frame, c), "remove_color")

FrameNext ==
  \/ FSet \/ FFill \/ FFillArea \/ FPrint \/ FClean
  \/ FShift \/ FResize \/ FAdjust \/ FRemoveColor

SpecFrame == FrameInit /\ [][FrameNext]_vars

\* C1: in every state reachable from Frame::new by the public mutations the
\* maintained color counter equals the number of cells that carry a color,
\* so Frame::color() is true exactly when some cell has a color.
C1_CounterIsCount ==
  /\ frame.color = CountColors(frame.rows)
  /\ FrameColor(frame) <=> (CountColors(frame.rows) > 0)

\* C16: after set(col, row, cell) on a frame, for an in-bounds position get
\* returns the cell whatever the default, every other cell is as before and
\* the color counter equals a full recount; for an out-of-bounds position
\* the frame is unchanged and get returns the default.
C16_SetGet ==
  op = "set" =>
    IF pre.column < FrameWidth(pre.frame) /\ pre.row < FrameHeight(pre.frame)
      THEN /\ \A default \in Cells :
                FrameGet(frame, pre.column, pre.row, default) = pre.new
           /\ \A c \in 0..(FrameWidth(frame) - 1), r \in 0..(FrameHeight(frame) - 1) :
                (c # pre.column \/ r # pre.row)
                  => FrameGet(frame, c, r, pre.new) = FrameGet(pre.frame, c, r, pre.new)
           /\ FrameWidth(frame) = FrameWidth(pre.frame)
           /\ FrameHeight(frame) = FrameHeight(pre.frame)
           /\ frame.color = CountColors(frame.rows)
      ELSE /\ frame = pre.frame
           /\ \A default \in Cells :
                FrameGet(frame, pre.column, pre.row, default) = default

(***************************************************************************)
(* A Frames collection under its public operations                         *)
(***************************************************************************)
MaxFrames == 2
MaxFsSteps == 2

FrameIdx == 0..MaxFrames
FsCells == {DefaultCell, MkCell(A, Some(Ch1))}

FramesInit ==
  /\ \E n \in 0..MaxFrames, w \in Widths, h \in Heights, fill \in FsCells :
       fs = FramesNew(n, w, h, fill)
  /\ frame = << >>
  /\ art = << >>
  /\ doc = << >>
  /\ tok = << >>
  /\ op = "new"
  /\ pre = << >>
  /\ res = << >>
  /\ steps = 0

FramesStep(s, name, r) ==
  /\ steps < MaxFsSteps
  /\ fs' = s
  /\ op' = name
  /\ res' = r
  /\ steps' = steps + 1
  /\ UNCHANGED <<frame, art, doc, tok, pre>>

\* An operation returning Result<()>: the state it leaves and its outcome.
FramesTry(m, name) ==
  FramesStep(m.fs, name, IF m.ok THEN <<"Ok">> ELSE <<"Err", m.err>>)

FsSet ==
  \E f \in FrameIdx, c \in Widths, r \in Heights, cell \in FsCells :
    FramesStep(FramesSet(fs, f, c, r, cell), "set", << >>)
\* Frames::fill / fill_frame
FsFill ==
  \/ \E cell \in FsCells :
       FramesStep(EachFrame(fs, LAMBDA x : FrameFill(x, cell)), "fill", << >>)
  \/ \E f \in FrameIdx, cell \in FsCells :
       FramesStep(OneFrame(fs, f, LAMBDA x : FrameFill(x, cell)), "fill_frame", << >>)
\* Frames::fill_text / fill_text_frame
FsFillText ==
  \/ \E t \in Texts :
       FramesStep(EachFrame(fs, LAMBDA x : FrameFillText(x, t)), "fill_text", << >>)
  \/ \E f \in FrameIdx, t \in Texts :
       FramesStep(OneFrame(fs, f, LAMBDA x : FrameFillText(x, t)),
                  "fill_text_frame", << >>)
\* Frames::fill_color / fill_color_frame
FsFillColor ==
  \/ \E c \in OptColors :
       FramesStep(EachFrame(fs, LAMBDA x : FrameFillColor(x, c)), "fill_color", << >>)
  \/ \E f \in FrameIdx, c \in OptColors :
       FramesStep(OneFrame(fs, f, LAMBDA x : FrameFillColor(x, c)),
                  "fill_color_frame", << >>)
\* Frames::fill_area / fill_area_frame; fill_area_frame indexes
\* self.frames[frame] unchecked: it is defined (does not panic) only for
\* frame < frames().
FsFillArea ==
  \/ \E cs \in IndexSeqs(MaxW), rs \in IndexSeqs(MaxH), cell \in FsCells :
       FramesStep(EachFrame(fs, LAMBDA x : FrameFillArea(x, cs, rs, cell)),
                  "fill_area", << >>)
  \/ \E f \in FrameIdx, cs \in IndexSeqs(MaxW), rs \in IndexSeqs(MaxH),
        cell \in FsCells :
       /\ f < FramesCount(fs)
       /\ FramesStep([fs EXCEPT !.frames[f + 1] = FrameFillArea(@, cs, rs, cell)],
                     "fill_area_frame", << >>)
\* Frames::print
FsPrint ==
  \E f \in FrameIdx, c \in Widths, r \in Heights, line \in PrintLines,
     color \in {None, Some(Some(Ch1))} :
    FramesStep(OneFrame(fs, f, LAMBDA x : FramePrint(x, c, r, line, color)),
               "print", << >>)
\* Frames::clean / clean_frame
FsClean ==
  \/ FramesStep(EachFrame(fs, FrameClean), "clean", << >>)
  \/ \E f \in FrameIdx : FramesStep(OneFrame(fs, f, FrameClean), "clean_frame", << >>)
\* Frames::shift_left / shift_right / shift_up / shift_down
FsShift ==
  \/ \E k \in 0..(MaxW + 1), cell \in FsCells :
       \/ FramesStep(EachFrame(fs, LAMBDA x : FrameShiftLeft(x, k, cell)),
                     "shift_left", << >>)
       \/ FramesStep(EachFrame(fs, LAMBDA x : FrameShiftRight(x, k, cell)),
                     "shift_right", << >>)
  \/ \E k \in 0..(MaxH + 1), cell \in FsCells :
       \/ FramesStep(EachFrame(fs, LAMBDA x : FrameShiftUp(x, k, cell)),
                     "shift_up", << >>)
       \/ FramesStep(EachFrame(fs, LAMBDA x : FrameShiftDown(x, k, cell)),
                     "shift_down", << >>)
\* Frames::shift_left_frame / shift_right_frame / shift_up_frame /
\* shift_down_frame
FsShiftFrame ==
  \/ \E f \in FrameIdx, k \in 0..(MaxW + 1), cell \in FsCells :
       \/ FramesStep(OneFrame(fs, f, LAMBDA x : FrameShiftLeft(x, k, cell)),
                     "shift_left_frame", << >>)
       \/ FramesStep(OneFrame(fs, f, LAMBDA x : FrameShiftRight(x, k, cell)),
                     "shift_right_frame", << >>)
  \/ \E f \in FrameIdx, k \in 0..(MaxH + 1), cell \in FsCells :
       \/ FramesStep(OneFrame(fs, f, LAMBDA x : FrameShiftUp(x, k, cell)),
                     "shift_up_frame", << >>)
       \/ FramesStep(OneFrame(fs, f, LAMBDA x : FrameShiftDown(x, k, cell)),
                     "shift_down_frame", << >>)
FsResize ==
  \/ \E w \in Widths, h \in Heights, cell \in FsCells :
       FramesStep(FramesResize(fs, w, h, cell), "resize", << >>)
  \/ \E w \in Widths, cell \in FsCells :
       FramesStep(FramesResizeWidth(fs, w, cell), "resize_width", << >>)
  \/ \E h \in Heights, cell \in FsCells :
       FramesStep(FramesResizeHeight(fs, h, cell), "resize_height", << >>)
\* Frames::adjust / adjust_width / adjust_height; res keeps the collection
\* before the call and the arguments (0 for a dimension that is not given)
FsAdjust ==
  \/ \E w \in Widths, h \in Heights, cell \in FsCells :
       FramesStep(FramesAdjust(fs, w, h, cell), "adjust",
                  [before |-> fs, width |-> w, height |-> h, fill |-> cell])
  \/ \E w \in Widths, cell \in FsCells :
       FramesStep(FramesAdjustWidth(fs, w, cell), "adjust_width",
                  [before |-> fs, width |-> w, height |-> 0, fill |-> cell])
  \/ \E h \in Heights, cell \in FsCells :
       FramesStep(FramesAdjustHeight(fs, h, cell), "adjust_height",
                  [before |-> fs, width |-> 0, height |-> h, fill |-> cell])
FsRemoveColor ==
  \E c \in ColorNames : FramesStep(FramesRemoveColor(fs, c), "remove_color", << >>)
FsMakeSureFrameExist ==
  \E f \in 0..(MaxFrames - 1) :
    FramesStep(make_sure_frame_exist(fs, f), "make_sure_frame_exist", << >>)
FsDupFrame ==
  \E f \in 0..(MaxFrames - 1) :
    /\ Max(FramesCount(fs), f + 1) < MaxFrames
    /\ FramesStep(dup_frame(fs, f), "dup_frame", << >>)
FsRemoveFrame ==
  \E f \in FrameIdx : FramesStep(remove_frame(fs, f), "remove_frame", << >>)
FsPinColor == \E f \in FrameIdx : FramesTry(pin_color(fs, f), "pin_color")
FsPinText == \E f \in FrameIdx : FramesTry(pin_text(fs, f), "pin_text")
\* Frames::pinned is a query: it leaves the collection as it is.
FsPinned == FramesStep(fs, "pinned", pinned(fs))
\* Frames::contains_text; res keeps the character asked for and the answer
FsContainsText ==
  \E ch \in {SPACE, A, Ch1} :
    FramesStep(fs, "contains_text", [ch |-> ch, out |-> FramesContainsText(fs, ch)])

FramesNext ==
  \/ FsSet \/ FsFill \/ FsFillText \/ FsFillColor \/ FsFillArea \/ FsPrint
  \/ FsClean \/ FsShift \/ FsShiftFrame \/ FsResize \/ FsAdjust
  \/ FsRemoveColor \/ FsMakeSureFrameExist \/ FsDupFrame \/ FsRemoveFrame
  \/ FsPinColor \/ FsPinText \/ FsPinned \/ FsContainsText

SpecFrames == FramesInit /\ [][FramesNext]_vars

\* C2: in every state reachable from Frames::new all frames have the same
\* width and height, every row has that width, and these dimensions are the
\* ones Frames::width() and Frames::height() report.
C2_DimsUniform ==
  \A i \in 1..Len(fs.frames) :
    /\ FrameWidth(fs.frames[i]) = FramesWidth(fs)
    /\ FrameHeight(fs.frames[i]) = FramesHeight(fs)
    /\ \A r \in 1..Len(fs.frames[i].rows) :
         Len(fs.frames[i].rows[r]) = FramesWidth(fs)

\* All frames hold the same text / color at every cell position of the frames.
SameText(frames) ==
  \A i, j \in 1..Len(frames) :
    /\ Len(frames[i].rows) = Len(frames[j].rows)
    /\ \A r \in 1..Len(frames[i].rows) :
         /\ Len(frames[i].rows[r]) = Len(frames[j].rows[r])
         /\ \A c \in 1..Len(frames[i].rows[r]) :
              frames[i].rows[r][c].text = frames[j].rows[r][c].text
SameColor(frames) ==
  \A i, j \in 1..Len(frames) :
    /\ Len(frames[i].rows) = Len(frames[j].rows)
    /\ \A r \in 1..Len(frames[i].rows) :
         /\ Len(frames[i].rows[r]) = Len(frames[j].rows[r])
         /\ \A c \in 1..Len(frames[i].rows[r]) :
              frames[i].rows[r][c].color = frames[j].rows[r][c].color

\* C7: pinned() is (false,false) with fewer than two frames; with two or
\* more its first component says that all frames hold the same text at every
\* cell position and its second that they hold the same color reference.
C7_PinnedExact ==
  /\ pinned(fs) = IF Len(fs.frames) < 2 THEN <<FALSE, FALSE>>
                  ELSE <<SameText(fs.frames), SameColor(fs.frames)>>
  /\ op = "pinned" => res = pinned(fs)

\* C17: after adjust, adjust_width or adjust_height the reported width and
\* height are the larger of the old value and the requested one, every cell
\* that existed keeps its value and every added cell is the fill cell.
C17_AdjustGrows ==
  op \in {"adjust", "adjust_width", "adjust_height"} =>
    /\ FramesWidth(fs) = Max(FramesWidth(res.before), res.width)
    /\ FramesHeight(fs) = Max(FramesHeight(res.before), res.height)
    /\ FramesCount(fs) = FramesCount(res.before)
    /\ \A i \in 1..Len(fs.frames) :
         \A r \in 1..Len(fs.frames[i].rows) :
           \A c \in 1..Len(fs.frames[i].rows[r]) :
             fs.frames[i].rows[r][c] =
               IF r <= Len(res.before.frames[i].rows)
                  /\ c <= Len(res.before.frames[i].rows[r])
                 THEN res.before.frames[i].rows[r][c]
                 ELSE res.fill

\* C18: contains_text(ch) is true exactly when some cell of some frame has
\* the text character ch, whatever the color references of the cells.
C18_ContainsText ==
  op = "contains_text" =>
    (res.out <=>
       \E i \in 1..Len(fs.frames) :
         \E r \in 1..Len(fs.frames[i].rows) :
           \E c \in 1..Len(fs.frames[i].rows[r]) :
             fs.frames[i].rows[r][c].text = res.ch)

(***************************************************************************)
(* Art::from_lines at the level of blocks: pin blocks, body blocks and the *)
(* final merge, each block given by the frames read from it                *)
(***************************************************************************)
MgArea == 2
MgFrames == 2
MgSteps == 3

MgCells == {MkCell(A, None), MkCell(B, Some(Ch1))}
MkFrame(w, rows) == recalc_colors([color |-> 0, width |-> w, rows |-> rows])
\* The non-empty frames a block can hold, and the frame of an empty block.
MgDims == {d \in (1..MgArea) \X (1..MgArea) : d[1] * d[2] <= MgArea}
MgFrameSet ==
  UNION {{MkFrame(d[1], rows) : rows \in [1..d[2] -> [1..d[1] -> MgCells]]} :
           d \in MgDims}
EmptyFrame == MkFrame(0, << >>)
MgBodies ==
  {<< >>} \cup {<<f>> : f \in MgFrameSet}
          \cup {<<f, g>> : f \in MgFrameSet, g \in MgFrameSet}
MergeOps == {"read_body", "from_lines"}
Outcome(m) == IF m.ok THEN <<"Ok">> ELSE <<"Err", m.err>>

MergeInit ==
  /\ fs = [text_pin |-> None, color_pin |-> None, width |-> 0, height |-> 0,
           frames |-> << >>]
  /\ frame = << >>
  /\ art = << >>
  /\ doc = << >>
  /\ tok = << >>
  /\ op = "start"
  /\ pre = << >>
  /\ res = <<"Ok">>
  /\ steps = 0

\* from_lines goes on to the next block while no block failed.
Reading ==
  /\ steps < MgSteps
  /\ op # "from_lines"
  /\ res = <<"Ok">>

MReadTextPin ==
  \E f \in MgFrameSet \cup {EmptyFrame} :
    LET m == read_text_pin(fs, f)
    IN /\ Reading
       /\ fs' = m.fs
       /\ op' = "read_text_pin"
       /\ pre' = fs
       /\ res' = Outcome(m)
       /\ steps' = steps + 1
       /\ UNCHANGED <<frame, art, doc, tok>>

MReadColorPin ==
  \E f \in MgFrameSet \cup {EmptyFrame} :
    LET m == read_color_pin(fs, f)
    IN /\ Reading
       /\ fs' = m.fs
       /\ op' = "read_color_pin"
       /\ pre' = fs
       /\ res' = Outcome(m)
       /\ steps' = steps + 1
       /\ UNCHANGED <<frame, art, doc, tok>>

\* Frames::read_body: the loop over the block's frames, then merge.
MReadBody ==
  \E read \in MgBodies :
    LET l == read_body_loop(fs, read, 1)
        m == merge(l.fs)
    IN /\ Reading
       /\ Len(fs.frames) + Len(read) <= MgFrames
       /\ IF l.ok
            THEN /\ fs' = m.fs
                 /\ op' = "read_body"
                 /\ pre' = l.fs
                 /\ res' = Outcome(m)
            ELSE /\ fs' = l.fs
                 /\ op' = "check_frame"
                 /\ pre' = fs
                 /\ res' = Outcome(l)
       /\ steps' = steps + 1
       /\ UNCHANGED <<frame, art, doc, tok>>

\* End of input: the final frames.merge()? of from_lines.
MEnd ==
  LET m == merge(fs)
  IN /\ Reading
     /\ fs' = m.fs
     /\ op' = "from_lines"
     /\ pre' = fs
     /\ res' = Outcome(m)
     /\ steps' = steps + 1
     /\ UNCHANGED <<frame, art, doc, tok>>

MergeNext == MReadTextPin \/ MReadColorPin \/ MReadBody \/ MEnd

SpecMerge == MergeInit /\ [][MergeNext]_vars

\* The pin has the dimensions of every body frame.
PinFits(s, pin) ==
  \A i \in 1..Len(s.frames) :
    /\ FrameWidth(s.frames[i]) = FrameWidth(pin)
    /\ FrameHeight(s.frames[i]) = FrameHeight(pin)
PinsFit(s) ==
  /\ IsSome(s.color_pin) => PinFits(s, Unwrap(s.color_pin))
  /\ IsSome(s.text_pin) => PinFits(s, Unwrap(s.text_pin))
SameDims(a, b) ==
  /\ Len(a) = Len(b)
  /\ \A i \in 1..Len(a) :
       /\ FrameWidth(a[i]) = FrameWidth(b[i])
       /\ Len(a[i].rows) = Len(b[i].rows)
       /\ \A r \in 1..Len(a[i].rows) : Len(a[i].rows[r]) = Len(b[i].rows[r])

\* C5: merge with pins of the body frames' dimensions succeeds and leaves the
\* same number of frames; each cell's text is the text pin's if there is a
\* text pin and the body frame's otherwise, and its color is the color pin's
\* if there is a color pin and the body frame's otherwise.
C5_MergeChannels ==
  (op \in MergeOps /\ PinsFit(pre)) =>
    /\ res = <<"Ok">>
    /\ SameDims(fs.frames, pre.frames)
    /\ \A i \in 1..Len(pre.frames) :
         \A r \in 1..FrameHeight(pre.frames[i]) :
           \A c \in 1..FrameWidth(pre.frames[i]) :
             fs.frames[i].rows[r][c] =
               MkCell(IF IsSome(pre.text_pin)
                        THEN Unwrap(pre.text_pin).rows[r][c].text
                        ELSE pre.frames[i].rows[r][c].text,
                      IF IsSome(pre.color_pin)
                        THEN Unwrap(pre.color_pin).rows[r][c].color
                        ELSE pre.frames[i].rows[r][c].color)

\* A merge of a color pin with two body frames of its dimensions, where a
\* body cell differs from the pin's cell in text and in color.
C5_Witness ==
  /\ op \in MergeOps
  /\ res = <<"Ok">>
  /\ IsSome(pre.color_pin)
  /\ pre.text_pin = None
  /\ Len(pre.frames) = 2
  /\ PinFits(pre, Unwrap(pre.color_pin))
  /\ \E i \in 1..2 :
       \E r \in 1..FrameHeight(pre.frames[i]) :
         \E c \in 1..FrameWidth(pre.frames[i]) :
           /\ pre.frames[i].rows[r][c].text # Unwrap(pre.color_pin).rows[r][c].text
           /\ pre.frames[i].rows[r][c].color # Unwrap(pre.color_pin).rows[r][c].color

\* The error merge_frames gives for two frames of different dimensions.
MismatchOf(a, b) ==
  IF FrameHeight(a) # FrameHeight(b) THEN "HeightMismatch" ELSE "WidthMismatch"
\* The first pin, in the order merge applies them, that does not fit.
FirstBadPin(s) ==
  IF IsSome(s.color_pin) /\ ~PinFits(s, Unwrap(s.color_pin))
    THEN Unwrap(s.color_pin)
    ELSE Unwrap(s.text_pin)

\* C6: merging a pin with body frames of another height or width returns
\* HeightMismatch when the heights differ and WidthMismatch otherwise; no
\* frame is truncated or padded and the pins stay as they were, and the
\* document (pin block and body frames of different dimensions) fails to
\* parse with that error.
C6_MismatchError ==
  (op \in MergeOps /\ Len(pre.frames) >= 1 /\ ~PinsFit(pre)) =>
    /\ res = <<"Err", MismatchOf(FirstBadPin(pre), pre.frames[1])>>
    /\ SameDims(fs.frames, pre.frames)
    /\ fs.text_pin = pre.text_pin
    /\ fs.color_pin = pre.color_pin

\* A text pin as high as the body frame but of another width: WidthMismatch.
C6_Witness ==
  /\ op \in MergeOps
  /\ Len(pre.frames) >= 1
  /\ IsSome(pre.text_pin)
  /\ FrameHeight(Unwrap(pre.text_pin)) = FrameHeight(pre.frames[1])
  /\ FrameWidth(Unwrap(pre.text_pin)) # FrameWidth(pre.frames[1])
  /\ res = <<"Err", "WidthMismatch">>

(***************************************************************************)
(* Color tokens: parse, then format                                        *)
(***************************************************************************)
HexAlphabet == {48, 49, 97, 70}
NameTokens ==
  {HueNames[h] : h \in 1..8} \cup {Lit.bright \o HueNames[h] : h \in 1..8}
    \cup {Lit.gray, Lit.grey, <<82, 69, 68>>, <<71, 114, 97, 121>>}
DecTokens ==
  {FmtDec(n) : n \in 0..255} \cup {<<48, 48, 55>>, <<48, 50, 53, 53>>}
HexTokens == [1..6 -> HexAlphabet]
\* Strings that are no color token: empty, a number above 255, the signed
\* numbers "-1" and "+5", five hex digits, a word, "+f+f+f", and the six
\* bytes of "a", U+00E9, U+20AC.
BadTokens ==
  {<< >>, <<50, 53, 54>>, <<45, 49>>, <<43, 53>>, <<48, 49, 97, 70, 48>>,
   <<114, 101, 100, 115>>, <<43, 102, 43, 102, 43, 102>>, <<97, 233, 8364>>}
ColorTokens == NameTokens \cup DecTokens \cup HexTokens \cup BadTokens

ColorInit ==
  /\ tok \in ColorTokens
  /\ frame = << >>
  /\ fs = << >>
  /\ art = << >>
  /\ doc = << >>
  /\ op = "token"
  /\ pre = << >>
  /\ res = << >>
  /\ steps = 0

\* Color::from_str(tok)
CParse ==
  /\ op = "token"
  /\ res' = ColorFromStr(tok)
  /\ op' = "parse"
  /\ UNCHANGED <<frame, fs, art, doc, tok, pre, steps>>

\* to_string() of the color parsed: pre keeps the color, res the text
CFormat ==
  /\ op = "parse"
  /\ res.ok
  /\ pre' = res.val
  /\ res' = Ok(ColorToString(res.val))
  /\ op' = "format"
  /\ UNCHANGED <<frame, fs, art, doc, tok, steps>>

\* to_ansi(is_fg) of the color parsed or of Color::None: pre keeps the
\* color, art the flag, res the text
CToAnsi ==
  /\ op = "parse"
  /\ \E is_fg \in BOOLEAN, col \in (IF res.ok THEN {res.val} ELSE {}) \cup {ColorNone} :
    /\ pre' = col
    /\ art' = [is_fg |-> is_fg]
    /\ res' = Ok(to_ansi(col, is_fg))
    /\ op' = "to_ansi"
    /\ UNCHANGED <<frame, fs, doc, tok, steps>>

ColorNext == CParse \/ CFormat \/ CToAnsi

SpecColor == ColorInit /\ [][ColorNext]_vars

\* The kinds of valid color token.
IsNameTok(t) == ToLower(t) \in NameTokens
IsDecTok(t) ==
  /\ t # << >>
  /\ \A i \in 1..Len(t) : t[i] \in 48..57
  /\ ParseDigits(t, 10, 0) # None
IsHexTok(t) == Len(t) = 6 /\ \A i \in 1..6 : DigitVal(t[i], 16) >= 0

\* C26: Color::from_str gives a color only for a name of a 4-bit color in
\* any case, an unsigned decimal numeral of 0-255 or six hex digits
\* (surrounding white space aside); for every other string it gives the
\* error ColorParsing, and it never panics.
C26_ColorParseTotal ==
  op = "parse" =>
    LET t == Trim(tok)
    IN /\ res.err # "panic"
       /\ res.ok => (IsNameTok(t) \/ IsDecTok(t) \/ IsHexTok(t))
       /\ ~res.ok => res.err = "ColorParsing"

\* C10: for a valid token, the text formatted from the parsed color is an
\* equivalent token of the same kind: a name of the same color for a name, a
\* decimal numeral of the same value for a decimal 0-255, and the same six
\* hex digits for a token of six hex digits.
C10_TokenRoundTrip ==
  /\ (op = "parse" /\ (IsNameTok(tok) \/ IsDecTok(tok) \/ IsHexTok(tok))) => res.ok
  /\ op = "format" =>
       /\ IsNameTok(tok) =>
            IsNameTok(res.val) /\ ColorFromStr(res.val) = ColorFromStr(tok)
       /\ IsDecTok(tok) =>
            IsDecTok(res.val) /\ ParseDigits(res.val, 10, 0) = ParseDigits(tok, 10, 0)
       /\ IsHexTok(tok) => res.val = ToLower(tok)

\* The numbers of a text "n;n;...;n"
RECURSIVE SgrParams(_)
SgrParams(s) ==
  LET ab == SplitOnce(s, 59)
  IN IF ab = None THEN <<Unwrap(ParseUsize(s))>>
     ELSE <<Unwrap(ParseUsize(Unwrap(ab)[1]))>> \o SgrParams(Unwrap(ab)[2])

\* C30: to_ansi(is_fg) writes ESC "[", numbers separated by ";" and "m";
\* the numbers are 39 (foreground) or 49 (background) for no color; 30 + i
\* or 40 + i for the normal 4-bit color of hue i in 0..7, 90 + i or 100 + i
\* for the bright one; 38 or 48, then 5 and n for the index n; 38 or 48,
\* then 2, r, g and b for an RGB color.
C30_ToAnsi ==
  op = "to_ansi" =>
    LET s == res.val
        sel == IF art.is_fg THEN 38 ELSE 48
    IN /\ Len(s) >= 4 /\ s[1] = 27 /\ s[2] = 91 /\ s[Len(s)] = 109
       /\ SgrParams(SubSeq(s, 3, Len(s) - 1)) =
            (IF pre.kind = "None" THEN <<IF art.is_fg THEN 39 ELSE 49>>
             ELSE IF pre.kind = "Color4"
               THEN IF pre.b = 1
                      THEN <<(IF art.is_fg THEN 90 ELSE 100) + pre.a>>
                      ELSE <<(IF art.is_fg THEN 30 ELSE 40) + pre.a>>
             ELSE IF pre.kind = "Color256" THEN <<sel, 5, pre.a>>
             ELSE <<sel, 2, pre.a, pre.b, pre.c>>)

\* The background sequence of bright white is ESC "[107m"
C30_Witness ==
  /\ op = "to_ansi" /\ pre = Color4(7, TRUE) /\ ~art.is_fg
  /\ res.val = <<27, 91, 49, 48, 55, 109>>

(***************************************************************************)
(* Documents built through the API, written and read back; hand-written    *)
(* documents read                                                          *)
(***************************************************************************)
DocW == 2
DocH == 1
DocFrames == 2
MaxDocSteps == 3

DocCells == {MkCell(A, None), MkCell(A, Some(Ch1)), MkCell(SPACE, Some(UNDERSCORE))}
DocTitles == {None, Some(<<84>>)}
Red == ColorPair(Color4(1, FALSE), ColorNone)
DocPairs == {Red, PairFromCharBuiltin(Ch1)}

\* "@3a", "title T", "col r fg:red", "", "@body", "AB", "CD", "", ""
ScenarioDoc ==
  <<Lit.at3a, Lit.title \o <<32, 84>>,
    Lit.col \o <<32, 114, 32>> \o Lit.fg \o HueNames[2],
    << >>, Lit.at \o Lit.body, <<65, 66>>, <<67, 68>>, << >>, << >> >>
\* The same body under "colors no", under a text pin and under a color pin,
\* and a document with an extra key, a comment, an attached line and an
\* extra block
HandDocs ==
  {ScenarioDoc,
   SubSeq(ScenarioDoc, 1, 8),
   <<Lit.at3a, Lit.colors \o <<32>> \o Lit.no, << >>,
     Lit.at \o Lit.body, <<65, 66>>, <<67, 68>>, << >> >>,
   <<Lit.at3a, Lit.colors_yes, << >>, Lit.at \o Lit.text_pin, <<65, 66>>, << >>,
     Lit.at \o Lit.body, <<49, 50>>, << >>, <<51, 52>>, << >> >>,
   <<Lit.at3a, Lit.colors_yes, << >>, Lit.at \o Lit.color_pin, <<49, 50>>, << >>,
     Lit.at \o Lit.body, <<65, 66>>, << >> >>,
   <<Lit.at3a, Lit.comment \o <<32, 99>>, <<107, 32, 118>>, << >>,
     Lit.at \o Lit.attach, <<120>>, << >>, <<64, 110>>, <<121>>, << >>,
     Lit.at \o Lit.body, <<65>>, << >> >>,
   <<Lit.at3a, Lit.title, << >>, Lit.at \o Lit.body, <<65>> >>,
   <<Lit.at3a, << >>, <<65>> >>}

DocInit ==
  /\ \E n \in 1..DocFrames, w \in 1..DocW, h \in 1..DocH, fill \in DocCells :
       art = ArtNew(n, w, h, fill)
  /\ doc = << >>
  /\ res = Err("")
  /\ op = "new"
  /\ steps = 0
  /\ frame = << >> /\ fs = << >> /\ tok = << >> /\ pre = << >>

DocEdit(a, name) ==
  /\ steps < MaxDocSteps
  /\ art' = a
  /\ op' = name
  /\ steps' = steps + 1
  /\ UNCHANGED <<frame, fs, doc, tok, pre, res>>

\* Art::set
DSet ==
  \E f \in 0..(FramesCount(art.frames) - 1), c \in 0..(DocW - 1),
     r \in 0..(DocH - 1), new \in DocCells :
    DocEdit([art EXCEPT !.frames = FramesSet(@, f, c, r, new)], "set")

\* Art::set_title_key
DSetTitleKey ==
  \E t \in DocTitles : DocEdit([art EXCEPT !.header.title = t], "set_title_key")

\* Art::set_colors_key
DSetColorsKey ==
  \E c \in {None, Some(TRUE), Some(FALSE)} :
    DocEdit([art EXCEPT !.header.colors = c], "set_colors_key")

\* Art::set_loop_key
DSetLoopKey ==
  \E flag \in BOOLEAN :
    DocEdit([art EXCEPT !.header.loop_flag =
               IF ~flag \/ Len(art.header.loop_comments) > 0
                 THEN Some(flag) ELSE None], "set_loop_key")

\* Art::set_color_map
DSetColorMap ==
  \E name \in {Ch1, 114}, col \in DocPairs :
    DocEdit([art EXCEPT !.header.palette = set_color(@, name, col)], "set_color_map")

\* impl Display for Art (to_string)
DFormat ==
  /\ steps < MaxDocSteps
  /\ doc' = ArtLines(art)
  /\ op' = "format"
  /\ steps' = steps + 1
  /\ UNCHANGED <<frame, fs, art, tok, pre, res>>

\* A hand-written text is taken as the input
DLoad ==
  /\ steps < MaxDocSteps
  /\ \E d \in HandDocs : doc' = d
  /\ op' = "load"
  /\ steps' = steps + 1
  /\ UNCHANGED <<frame, fs, art, tok, pre, res>>

\* Art::from_str on the text at hand
DParse ==
  /\ steps < MaxDocSteps
  /\ doc # << >>
  /\ res' = from_lines(doc)
  /\ op' = "parse"
  /\ steps' = steps + 1
  /\ UNCHANGED <<frame, fs, art, doc, tok, pre>>

DocNext ==
  \/ DSet
  \/ DSetTitleKey
  \/ DSetColorsKey
  \/ DSetLoopKey
  \/ DSetColorMap
  \/ DFormat
  \/ DLoad
  \/ DParse

SpecDoc == DocInit /\ [][DocNext]_vars

\* The cell contents of every frame
FrameRows(s) == [i \in 1..Len(s.frames) |-> s.frames[i].rows]
SameDocument(x, y) ==
  /\ x.header = y.header
  /\ FrameRows(x.frames) = FrameRows(y.frames)
  /\ x.extra = y.extra

\* C3: reading the text written for a document built through the API
\* (Art::new, then setters and cell edits) succeeds and gives a document
\* equal to it in all header fields, in the text and color reference of
\* every cell of every frame, and in the extra blocks.
C3_RoundTrip ==
  (op = "parse" /\ doc = ArtLines(art)) => (res.ok /\ SameDocument(res.val, art))

ParsedScenario == op = "parse" /\ doc = ScenarioDoc
TextRows(f) == fmt_text(f)
ColorRows(f) == [r \in 1..Len(f.rows) |-> [c \in 1..Len(f.rows[r]) |-> f.rows[r][c].color]]
ScenarioHeader(a) ==
  /\ a.header.title = Some(<<84>>)
  /\ Len(a.header.palette) = 1
  /\ a.header.palette[1].name = 114
  /\ a.header.palette[1].pair = ColorPair(Color4(1, FALSE), ColorNone)

\* C4 as stated: the scenario document reads as one 2 x 2 frame with the
\* text rows AB and CD, no cell carrying a color, the title T and a palette
\* mapping r to {fg: red, bg: none}.
C4_ScenarioAsStated ==
  ParsedScenario =>
    /\ res.ok
    /\ FramesCount(res.val.frames) = 1
    /\ FramesWidth(res.val.frames) = 2
    /\ FramesHeight(res.val.frames) = 2
    /\ TextRows(res.val.frames.frames[1]) = <<<<65, 66>>, <<67, 68>>>>
    /\ ColorRows(res.val.frames.frames[1]) = <<<<None, None>>, <<None, None>>>>
    /\ ScenarioHeader(res.val)

\* C4 amended: the palette line enables colors, so each body line is read
\* as a text half and a color half: the scenario document reads as one
\* frame of width 1 and height 2, with the text rows A and C, the cell
\* colors B and D, the title T and a palette mapping r to
\* {fg: red, bg: none}.
C4_ScenarioAsRead ==
  ParsedScenario =>
    /\ res.ok
    /\ FramesCount(res.val.frames) = 1
    /\ FramesWidth(res.val.frames) = 1
    /\ FramesHeight(res.val.frames) = 2
    /\ TextRows(res.val.frames.frames[1]) = <<<<65>>, <<67>>>>
    /\ ColorRows(res.val.frames.frames[1]) = <<<<Some(66)>>, <<Some(68)>>>>
    /\ ScenarioHeader(res.val)

C4_Witness ==
  /\ ParsedScenario
  /\ res.ok
  /\ FramesWidth(res.val.frames) = 1
  /\ res.val.frames.frames[1].color = 2

(***************************************************************************)
(* The palette of a document under header parsing and the color-map API    *)
(***************************************************************************)
MaxPalSteps == 3

BuiltinNames == (48..57) \cup (97..102)
G == Ord["g"]
X == Ord["x"]
PalNames == {Ch1, G, X}
PalPairs == {Red, DefaultPair, ColorPair(ColorNone, Color4(1, FALSE))}
PalCells == {MkCell(A, Some(G)), MkCell(A, Some(Ch1)), MkCell(A, None)}

\* "col <c> bg:red" for the characters of a string
ColLines(names) ==
  [i \in 1..Len(names) |-> Lit.col \o <<32, names[i], 32>> \o Lit.bg \o HueNames[2]]
Builtin16 == [i \in 1..10 |-> 47 + i] \o [i \in 1..6 |-> 96 + i]
\* Documents whose header has `col` lines: all of 0-9a-f as palette keys;
\* all of 0-9a-f as the cell colors of one row; "col 1 fg:red";
\* "col x" (no colors); "col g fg:red" with a cell of color x
PalDocs ==
  {<<Lit.at3a>> \o ColLines(Builtin16) \o << << >>, Lit.at \o Lit.body, <<65, 48>>, << >> >>,
   <<Lit.at3a, Lit.colors_yes, << >>, Lit.at \o Lit.body,
     [i \in 1..16 |-> 65] \o Builtin16, << >> >>,
   <<Lit.at3a, Lit.col \o <<32, 49, 32>> \o Lit.fg \o HueNames[2], << >>,
     Lit.at \o Lit.body, <<65, 49>>, << >> >>,
   <<Lit.at3a, Lit.col \o <<32, 120>>, << >>, Lit.at \o Lit.body, <<65, 120>>, << >> >>,
   <<Lit.at3a, Lit.col \o <<32, 103, 32>> \o Lit.fg \o HueNames[2], << >>,
     Lit.at \o Lit.body, <<65, 120>>, << >> >>}

PalInit ==
  /\ art = ArtNew(1, 1, 1, DefaultCell)
  /\ op = "new"
  /\ res = 0
  /\ steps = 0
  /\ frame = << >> /\ fs = << >> /\ doc = << >> /\ tok = << >> /\ pre = << >>

\* pre keeps the document before a call of the color-map API and the
\* arguments of the call
PalStep(a, name, r, before) ==
  /\ steps < MaxPalSteps
  /\ art' = a
  /\ op' = name
  /\ res' = r
  /\ pre' = before
  /\ steps' = steps + 1
  /\ UNCHANGED <<frame, fs, doc, tok>>

\* Art::from_str: the header parsing of `col` lines
PParse ==
  \E d \in PalDocs :
    /\ from_lines(d).ok
    /\ PalStep(from_lines(d).val, "parse", 0, << >>)

\* Art::set_color_map
PSetColorMap ==
  \E name \in PalNames, col \in PalPairs :
    PalStep(set_color_map(art, name, col), "set_color_map", 0,
            [art |-> art, name |-> name, col |-> col])

\* Art::remove_color_map
PRemoveColorMap ==
  \E name \in PalNames : PalStep(remove_color_map(art, name), "remove_color_map", 0,
            [art |-> art, name |-> name])

\* Art::search_or_create_color_map
PSearchOrCreate ==
  \E col \in PalPairs :
    PalStep(search_or_create_color_map(art, col).art, "search_or_create_color_map",
            search_or_create_color_map(art, col).name, [art |-> art, col |-> col])

\* Art::set on the first cell
PSet ==
  \E new \in PalCells :
    PalStep([art EXCEPT !.frames = FramesSet(@, 0, 0, 0, new)], "set", 0, << >>)

\* Art::free_color_name
PFreeColorName == PalStep(art, "free_color_name", free_color_name(art), << >>)

PalNext ==
  \/ PParse
  \/ PSetColorMap
  \/ PRemoveColorMap
  \/ PSearchOrCreate
  \/ PSet
  \/ PFreeColorName

SpecPalette == PalInit /\ [][PalNext]_vars

\* C8: the explicit palette never holds an entry whose color pair equals
\* the built-in default of its character (the 4-bit foreground with no
\* background for 0-9a-f, {none, none} for any other character).
C8_PaletteMinimal ==
  \A i \in 1..Len(art.header.palette) :
    art.header.palette[i].pair # PairFromCharBuiltin(art.header.palette[i].name)

\* The characters in use: the palette keys and the cell color references
PaletteKeys(a) == {a.header.palette[i].name : i \in 1..Len(a.header.palette)}
CellColors(a) ==
  {a.frames.frames[f].rows[r][c].color :
     <<f, r, c>> \in {t \in (1..Len(a.frames.frames)) \X (1..a.frames.height)
                                \X (1..a.frames.width) : TRUE}} \ {None}
NamesInUse(a) == PaletteKeys(a) \cup {Unwrap(c) : c \in CellColors(a)}

\* The value of a hexadecimal digit 0-9a-f, and the characters looked up
HexValue(ch) == IF ch <= 57 THEN ch - 48 ELSE ch - 87
Lookups(a) == PalNames \cup BuiltinNames \cup PaletteKeys(a)

\* C35: after set_color(n, p) get_color(n) is p and get_color(m) is as
\* before for every other character m; a character that is no key of the
\* palette resolves to the 4-bit foreground of its digit and no background
\* for 0-9a-f (the hue is the digit modulo 8, bright from 8 on) and to
\* {none, none} otherwise.
C35_SetGetColor ==
  /\ op = "set_color_map" =>
       /\ get_color(art.header.palette, pre.name) = pre.col
       /\ \A m \in (Lookups(art) \cup Lookups(pre.art)) \ {pre.name} :
            get_color(art.header.palette, m) = get_color(pre.art.header.palette, m)
  /\ \A m \in Lookups(art) \ PaletteKeys(art) :
       get_color(art.header.palette, m) =
         IF m \in BuiltinNames
           THEN ColorPair(Color4(HexValue(m) % 8, HexValue(m) >= 8), ColorNone)
           ELSE DefaultPair

\* set_color("1", fg:red) on a palette that maps "1" to a red background
\* removes the entry, and "1" resolves to its built-in red foreground
C35_Witness ==
  /\ op = "set_color_map" /\ pre.name = Ch1 /\ pre.col = Red
  /\ get_color(pre.art.header.palette, Ch1) = ColorPair(ColorNone, Color4(1, FALSE))
  /\ ~PaletteContains(art.header.palette, Ch1)
  /\ get_color(art.header.palette, Ch1) = Red

\* C36: search_or_create_color_map(col) returns a character n that
\* get_color_map resolves to col: the first key of the palette, in insertion
\* order, whose pair is col when there is one, and the document is then
\* unchanged; otherwise a character that was neither a key of the palette
\* nor the color of a cell.  Every character that was a key or the color of
\* a cell resolves as before, and the frames are unchanged.
C36_SearchOrCreate ==
  op = "search_or_create_color_map" =>
    LET old == pre.art
        pal == old.header.palette
        hits == {i \in 1..Len(pal) : pal[i].pair = pre.col}
    IN /\ get_color(art.header.palette, res) = pre.col
       /\ IF hits # {}
            THEN /\ \E i \in hits : /\ res = pal[i].name
                                    /\ \A j \in hits : i <= j
                 /\ art = old
            ELSE res \notin NamesInUse(old)
       /\ \A m \in NamesInUse(old) :
            get_color(art.header.palette, m) = get_color(pal, m)
       /\ art.frames = old.frames

\* With "g" the color of a cell and no key for a red background, the name
\* created is "h"
C36_Witness ==
  /\ op = "search_or_create_color_map"
  /\ pre.col = ColorPair(ColorNone, Color4(1, FALSE))
  /\ G \in NamesInUse(pre.art)
  /\ search_color(pre.art.header.palette, pre.col, 1) = None
  /\ res = 104
  /\ get_color(art.header.palette, 104) = pre.col

\* C38: after remove_color_map(n) the character n is neither a key of the
\* palette nor the color of a cell; every cell that had the color n has no
\* color; every other cell is as before; the other entries of the palette
\* are as before, in their order.
C38_RemoveColorMap ==
  op = "remove_color_map" =>
    LET old == pre.art
        n == pre.name
    IN /\ ~contains_color(art, n)
       /\ n \notin NamesInUse(art)
       /\ Len(art.frames.frames) = Len(old.frames.frames)
       /\ \A f \in 1..Len(old.frames.frames) :
            /\ Len(art.frames.frames[f].rows) = Len(old.frames.frames[f].rows)
            /\ \A r \in 1..Len(old.frames.frames[f].rows) :
                 /\ Len(art.frames.frames[f].rows[r]) = Len(old.frames.frames[f].rows[r])
                 /\ \A c \in 1..Len(old.frames.frames[f].rows[r]) :
                      IF old.frames.frames[f].rows[r][c].color = Some(n)
                        THEN art.frames.frames[f].rows[r][c].color = None
                        ELSE art.frames.frames[f].rows[r][c] = old.frames.frames[f].rows[r][c]
       /\ art.header.palette =
            SelectSeq(old.header.palette, LAMBDA e : e.name # n)

\* remove_color_map("1") on the row colored 0-9a-f takes the color of the
\* second cell and leaves the third its color "2"
C38_Witness ==
  /\ op = "remove_color_map" /\ pre.name = Ch1
  /\ FramesWidth(pre.art.frames) = 16
  /\ pre.art.frames.frames[1].rows[1][2] = MkCell(A, Some(Ch1))
  /\ art.frames.frames[1].rows[1][2] = MkCell(A, None)
  /\ art.frames.frames[1].rows[1][3] = MkCell(A, Some(50))

\* C9: free_color_name returns a valid character that is neither a palette
\* key nor the color reference of any cell; when all of 0-9a-f are in use
\* the result is none of 0-9a-f.
C9_FreeNameUnused ==
  op = "free_color_name" =>
    /\ check_char(res) = Some(res)
    /\ res \notin NamesInUse(art)
    /\ (BuiltinNames \subseteq NamesInUse(art) => res \notin BuiltinNames)

C9_Witness ==
  /\ op = "free_color_name"
  /\ BuiltinNames \subseteq NamesInUse(art)
  /\ G \in NamesInUse(art)
  /\ G \notin PaletteKeys(art)
  /\ res = 104

(***************************************************************************)
(* The block loop of Art::from_lines, one block per step                   *)
(***************************************************************************)
MaxBlocks == 3

\* The blocks the input texts are made of: pins and bodies of one cell per
\* frame (a body ends with an empty frame), an empty pin of either kind, an
\* attached line, an extra block and a line that is no block title
BlockTexts ==
  {<<Lit.at \o Lit.text_pin, <<A>>, << >> >>,
   <<Lit.at \o Lit.text_pin, << >> >>,
   <<Lit.at \o Lit.color_pin, <<Ch1>>, << >> >>,
   <<Lit.at \o Lit.color_pin, << >> >>,
   <<Lit.at \o Lit.body, <<B>>, << >>, << >> >>,
   <<Lit.at \o Lit.body, <<B, Ch1>>, << >>, << >> >>,
   <<Lit.at \o Lit.attach, <<X>> >>,
   <<Lit.at \o <<X>>, <<X>>, << >> >>,
   <<<<X>>, << >> >>}
RECURSIVE Flatten(_)
Flatten(ss) == IF ss = << >> THEN << >> ELSE ss[1] \o Flatten(Tail(ss))
BlockDocs ==
  {<<Lit.at3a, hd, << >> >> \o Flatten(bs) :
     hd \in {Lit.colors_yes, Lit.colors \o <<32>> \o Lit.no},
     bs \in UNION {[1..n -> BlockTexts] : n \in 1..MaxBlocks}}

\* Art::from_lines up to its block loop: the header is read and the frames
\* are empty
BlocksInit ==
  /\ doc \in BlockDocs
  /\ art = MkArt(HeaderRead(doc).val,
                 [text_pin |-> None, color_pin |-> None, width |-> 0,
                  height |-> 0, frames |-> << >>], None, << >>)
  /\ pre = [pos |-> HeaderRead(doc).pos, seen |-> << >>]
  /\ res = [ok |-> TRUE, err |-> "", kind |-> ""]
  /\ op = "header"
  /\ steps = 0
  /\ frame = << >> /\ fs = << >> /\ tok = << >>

\* The title found by next_block at the position of the reader
Blk == next_block(doc, pre.pos)
\* The block at hand has a first line, and it is not empty
BlkNonEmpty ==
  Blk.pos <= Len(doc) /\ normalize_text(doc[Blk.pos]) # << >>
BlkIs(name) == res.ok /\ op # "end" /\ Blk.ok /\ Blk.name = Some(name)

\* One turn of the loop: the block `name` was handled, leaving the document
\* a and the reader at pos, or returning the error r
BlkStep(name, a, pos, r) ==
  /\ art' = (IF r.ok THEN a ELSE art)
  /\ pre' = [pos |-> IF r.ok THEN pos ELSE pre.pos,
             seen |-> Append(pre.seen, [name |-> name, nonempty |-> BlkNonEmpty])]
  /\ res' = r
  /\ op' = name
  /\ steps' = steps + 1
  /\ UNCHANGED <<frame, fs, doc, tok>>
BlkOk(kind) == [ok |-> TRUE, err |-> "", kind |-> kind]
BlkErr(err) == [ok |-> FALSE, err |-> err, kind |-> ""]

\* "attach": the next line, if any, is the attached text
BkAttach ==
  /\ BlkIs(Lit.attach)
  /\ IF Blk.pos > Len(doc) THEN BlkStep("attach", art, Blk.pos, BlkOk(""))
     ELSE BlkStep("attach", [art EXCEPT !.attached = Some(doc[Blk.pos])],
                  Blk.pos + 1, BlkOk(""))

\* "text-pin": Frames::read_text_pin
BkTextPin ==
  /\ BlkIs(Lit.text_pin)
  /\ LET r == ReadFrame("text", doc, Blk.pos, 0, << >>)
     IN IF art.frames.text_pin # None
          THEN BlkStep("text-pin", art, Blk.pos, BlkErr("BlockDup"))
        ELSE IF ~r.ok THEN BlkStep("text-pin", art, Blk.pos, BlkErr(r.err))
        ELSE BlkStep("text-pin",
                     [art EXCEPT !.frames = read_text_pin(@, r.frame).fs],
                     r.pos, BlkOk(""))

\* "color-pin": Frames::read_color_pin
BkColorPin ==
  /\ BlkIs(Lit.color_pin)
  /\ LET r == ReadFrame("color", doc, Blk.pos, 0, << >>)
     IN IF art.frames.color_pin # None
          THEN BlkStep("color-pin", art, Blk.pos, BlkErr("BlockDup"))
        ELSE IF ~r.ok THEN BlkStep("color-pin", art, Blk.pos, BlkErr(r.err))
        ELSE BlkStep("color-pin",
                     [art EXCEPT !.frames = read_color_pin(@, r.frame).fs],
                     r.pos, BlkOk(""))

\* "body": Frames::read_body
BkBody ==
  /\ BlkIs(Lit.body)
  /\ LET kind == body_kind(art.frames, art.header)
         r == read_body(art.frames, kind, doc, Blk.pos)
     IN IF ~r.ok THEN BlkStep("body", art, Blk.pos, [BlkErr(r.err) EXCEPT !.kind = kind])
        ELSE BlkStep("body", [art EXCEPT !.frames = r.fs], r.pos, BlkOk(kind))

\* Any other title: ExtraBlock::read
BkExtra ==
  /\ res.ok /\ op # "end" /\ Blk.ok /\ Blk.name # None
  /\ Unwrap(Blk.name) \notin {Lit.attach, Lit.text_pin, Lit.color_pin, Lit.body}
  /\ LET e == ExtraRead(doc, Blk.pos, << >>)
     IN BlkStep("extra",
                [art EXCEPT !.extra = Append(@, [title |-> Unwrap(Blk.name),
                                                 content |-> e.content])],
                e.pos, BlkOk(""))

\* next_block fails: the line at hand is no block title
BkBadTitle ==
  /\ res.ok /\ op # "end" /\ ~Blk.ok
  /\ BlkStep("title", art, pre.pos, BlkErr(Blk.err))

\* The end of the input: the loop is left and Frames::merge is called
BkEnd ==
  /\ res.ok /\ op # "end" /\ Blk.ok /\ Blk.name = None
  /\ LET m == merge(art.frames)
     IN /\ art' = (IF m.ok THEN [art EXCEPT !.frames = m.fs] ELSE art)
        /\ res' = [ok |-> m.ok, err |-> m.err, kind |-> ""]
        /\ op' = "end"
        /\ steps' = steps + 1
        /\ UNCHANGED <<frame, fs, doc, tok, pre>>

BlocksNext ==
  \/ BkAttach \/ BkTextPin \/ BkColorPin \/ BkBody
  \/ BkExtra \/ BkBadTitle \/ BkEnd

SpecBlocks == BlocksInit /\ [][BlocksNext]_vars

\* The blocks seen before the one just handled
SeenBefore == SubSeq(pre.seen, 1, Len(pre.seen) - 1)
SeenName(name) == \E i \in 1..Len(SeenBefore) : SeenBefore[i].name = name
SeenNonEmpty(name) ==
  \E i \in 1..Len(SeenBefore) : SeenBefore[i].name = name /\ SeenBefore[i].nonempty

\* The loop agrees with Art::from_lines on the whole text
BlocksAgree ==
  /\ (op = "end" /\ res.ok) => from_lines(doc) = Ok(art)
  /\ ~res.ok => from_lines(doc) = Err(res.err)

\* C11: when a body block is read, its lines are read as text if the header
\* has colors disabled; otherwise as text if a color-pin block was seen
\* before it; otherwise as color characters if a text-pin block was seen
\* before it; otherwise as interleaved text and color.
C11_BodyFormat ==
  op = "body" =>
    res.kind = (IF ~get_colors(art.header) THEN "text"
                ELSE IF SeenName("color-pin") THEN "text"
                ELSE IF SeenName("text-pin") THEN "color"
                ELSE "both")

\* C12: a second non-empty text-pin block, or a second non-empty color-pin
\* block, fails with the duplicate-block error, whatever blocks lie between
\* the two.
C12_DuplicatePin ==
  \A name \in {"text-pin", "color-pin"} :
    (op = name /\ pre.seen[Len(pre.seen)].nonempty /\ SeenNonEmpty(name))
      => (~res.ok /\ res.err = "BlockDup")

(***************************************************************************)
(* Header::read_modern, one line per step, then the rest of                *)
(* Art::from_lines, the text written for the document and its reading      *)
(***************************************************************************)
MaxHdLines == 4

\* ";; c", ";;d", "title T", "author X", "#t", "k v", "k  v" and "@3a"
HdLineTexts ==
  {Lit.comment \o <<32, 99>>, Lit.comment \o <<100>>,
   Lit.title \o <<32, 84>>, Lit.author \o <<32, 88>>,
   Lit.hash \o <<116>>, <<107, 32, 118>>, <<107, 32, 32, 118>>, Lit.at3a}
\* The header lines are followed by a body of one frame of one cell
HeaderDocs ==
  {<<Lit.at3a>> \o ls \o << << >>, Lit.at \o Lit.body, <<A>>, << >>, << >> >> :
     ls \in UNION {[1..n -> HdLineTexts] : n \in 0..MaxHdLines}}

\* Header::read found "@3a" on the first line and calls read_modern: the
\* header is the default one and no comment is pending
HeaderInit ==
  /\ doc \in HeaderDocs
  /\ res = [ok |-> TRUE, err |-> "", val |-> DefaultHeader, pos |-> 2, buf |-> << >>]
  /\ pre = res
  /\ art = << >>
  /\ op = "read"
  /\ steps = 0
  /\ frame = << >> /\ fs = << >> /\ tok = << >>

\* The line at hand of the reader, normalised
HdReading == op \in {"read", "comment", "marker", "tag", "key"} /\ res.ok
HdLine == IF res.pos <= Len(doc) THEN normalize_text(doc[res.pos]) ELSE << >>
HdStep(name, r) ==
  /\ pre' = res
  /\ res' = r
  /\ op' = name
  /\ steps' = steps + 1
  /\ UNCHANGED <<frame, fs, art, doc, tok>>

\* A line "@3a" is skipped
HdMarker ==
  /\ HdReading /\ HdLine = Lit.at3a
  /\ HdStep("marker", [res EXCEPT !.pos = @ + 1])

\* A comment line joins the pending comments
HdComment ==
  /\ HdReading /\ HdLine # Lit.at3a /\ StartsWith(HdLine, Lit.comment)
  /\ HdStep("comment",
            [res EXCEPT !.pos = @ + 1,
                        !.buf = Append(@, Trim(Unwrap(StripPrefix(HdLine, Lit.comment))))])

\* A tag line
HdTag ==
  /\ HdReading /\ HdLine # Lit.at3a /\ ~StartsWith(HdLine, Lit.comment)
  /\ StartsWith(HdLine, Lit.hash)
  /\ HdStep("tag", [res EXCEPT !.pos = @ + 1, !.buf = << >>,
                               !.val = ReadTag(@, HdLine, res.buf)])

\* A key line
HdKey ==
  /\ HdReading /\ HdLine # << >> /\ HdLine # Lit.at3a
  /\ ~StartsWith(HdLine, Lit.comment) /\ ~StartsWith(HdLine, Lit.hash)
  /\ LET k == read_modern_key(res.val, HdLine, res.buf)
     IN IF k.ok
          THEN HdStep("key", [res EXCEPT !.pos = @ + 1, !.buf = << >>, !.val = k.val])
          ELSE HdStep("key", [res EXCEPT !.ok = FALSE, !.err = k.err])

\* The empty line or the end of the input ends the header: the pending
\* comments are the trailing ones, and Art::from_lines reads the blocks
HdEnd ==
  /\ HdReading /\ HdLine = << >>
  /\ LET h == [ok |-> TRUE, err |-> "",
               val |-> [res.val EXCEPT !.trailing_comments = res.buf],
               pos |-> res.pos + 1]
     IN /\ pre' = res
        /\ res' = [h EXCEPT !.pos = res.pos + 1] @@ [buf |-> << >>]
        /\ art' = from_lines_header(h, doc).val
        /\ op' = "end"
        /\ steps' = steps + 1
        /\ UNCHANGED <<frame, fs, doc, tok>>

\* impl Display for Art on the document read
HdFormat ==
  /\ op = "end"
  /\ doc' = ArtLines(art)
  /\ op' = "format"
  /\ steps' = steps + 1
  /\ UNCHANGED <<frame, fs, art, tok, pre, res>>

\* Art::from_str on the text written
HdParse ==
  /\ op = "format"
  /\ res' = from_lines(doc)
  /\ op' = "parse"
  /\ steps' = steps + 1
  /\ UNCHANGED <<frame, fs, art, doc, tok, pre>>

HeaderNext ==
  \/ HdMarker \/ HdComment \/ HdTag \/ HdKey \/ HdEnd \/ HdFormat \/ HdParse

SpecHeader == HeaderInit /\ [][HeaderNext]_vars

\* The step-wise reading agrees with Header::read / Art::from_lines
HeaderAgree ==
  /\ op = "end" => (HeaderRead(doc).ok /\ HeaderRead(doc).val = res.val
                    /\ from_lines(doc) = Ok(art))
  /\ (op = "key" /\ ~res.ok) => from_lines(doc) = Err(res.err)

\* C13: the extra keys of a document are those of the document read from
\* the text written for it.
C13_ExtraKeysRoundTrip ==
  op = "parse" => (res.ok /\ res.val.header.extra_keys = art.header.extra_keys)

\* The items of a header that carry comments, as <<kind, key, comments>>:
\* the keys that are set, the authors, the palette entries, the extra keys
\* and the tag lines
ScalarItems(h) ==
  {<<f[1], << >>, h[f[2]]>> :
     f \in {g \in {<<"title", "title_comments">>, <<"src", "src_comments">>,
                   <<"editor", "editor_comments">>,
                   <<"license", "license_comments">>,
                   <<"delay", "delay_comments">>,
                   <<"loop_flag", "loop_comments">>,
                   <<"preview", "preview_comments">>,
                   <<"colors", "colors_comments">>} : IsSome(h[g[1]])}}
Items(h) ==
  ScalarItems(h)
  \cup {<<"orig-author", h.orig_authors[i].name, h.orig_authors[i].comments>> :
          i \in 1..Len(h.orig_authors)}
  \cup {<<"author", h.authors[i].name, h.authors[i].comments>> :
          i \in 1..Len(h.authors)}
  \cup {<<"col", <<h.palette[i].name>>, h.palette[i].comments>> :
          i \in 1..Len(h.palette)}
  \cup {<<"extra", <<i>>, h.extra_keys[i].comments>> : i \in 1..Len(h.extra_keys)}
  \cup {<<"tag", <<i>>, h.tags[i].comments>> : i \in 1..Len(h.tags)}

\* The kind of item a tag line or key line stands for
LineKind(line) ==
  LET key == Trim(Unwrap(split_once(line))[1])
  IN IF StartsWith(line, Lit.hash) THEN "tag"
     ELSE IF key = Lit.title THEN "title"
     ELSE IF key = Lit.orig_author THEN "orig-author"
     ELSE IF key = Lit.author THEN "author"
     ELSE IF key = Lit.src THEN "src"
     ELSE IF key = Lit.editor THEN "editor"
     ELSE IF key = Lit.license THEN "license"
     ELSE IF key = Lit.delay THEN "delay"
     ELSE IF key = Lit.loop THEN "loop_flag"
     ELSE IF key = Lit.preview THEN "preview"
     ELSE IF key = Lit.colors THEN "colors"
     ELSE IF key = Lit.col THEN "col"
     ELSE "extra"

\* The pending comments were all given, in their order, to one item of the
\* given kind, the other items keeping theirs
GivenToOne(old, new, buf, kind) ==
  \E it \in {x \in new : x[1] = kind} :
    \/ /\ it[3] = buf
       /\ ~\E o \in old : o[1] = it[1] /\ o[2] = it[2]
       /\ new \ {it} = old
    \/ \E o \in old :
         /\ o[1] = it[1] /\ o[2] = it[2]
         /\ it[3] = o[3] \o buf
         /\ new \ {it} = old \ {o}

\* C20: a comment line only joins the pending comments, behind the earlier
\* ones; the next key line or tag line read gives all pending comments, in
\* order, to one item, of the kind of that line (for an author named again,
\* the entry of that author), and leaves the comments of all other items as
\* they were, after which no comment is pending; comments pending at the end
\* of the header become the trailing comments.
C20_CommentsAttach ==
  /\ op = "comment" =>
       /\ Items(res.val) = Items(pre.val)
       /\ Len(res.buf) = Len(pre.buf) + 1
       /\ SubSeq(res.buf, 1, Len(pre.buf)) = pre.buf
  /\ op = "marker" => (Items(res.val) = Items(pre.val) /\ res.buf = pre.buf)
  /\ (op \in {"key", "tag"} /\ res.ok) =>
       /\ GivenToOne(Items(pre.val), Items(res.val), pre.buf,
                     LineKind(normalize_text(doc[pre.pos])))
       /\ res.buf = << >>
       /\ res.val.trailing_comments = << >>
  /\ op = "end" =>
       /\ Items(res.val) = Items(pre.val)
       /\ res.val.trailing_comments = pre.buf

\* An author named a second time is given the comments before that line,
\* behind those it had
C20_Witness ==
  /\ op = "key" /\ res.ok /\ pre.buf # << >>
  /\ Len(pre.val.authors) = 1 /\ Len(res.val.authors) = 1
  /\ pre.val.authors[1].comments # << >>
  /\ res.val.authors[1].comments = pre.val.authors[1].comments \o pre.buf

(***************************************************************************)
(* Validated characters: Char::new, Char::new_or, Char::from_str and       *)
(* normalize_text                                                          *)
(***************************************************************************)
MaxStrLen == 2

\* The code points at the edges of the ranges check_char tells apart; a
\* Rust char is never a surrogate, so U+D7FF and U+E000 stand at that edge
CharInputs ==
  {0, 9, 10, 13, 27, 31, 32, 33, 65, 95, 126, 127, 128, 129, 133, 141, 143,
   144, 157, 159, 160, 161, 767, 768, 879, 880, 5760, 6158, 8191, 8192, 8202,
   8203, 8207, 8208, 8232, 8233, 8234, 8238, 8239, 8287, 8288, 8293, 8294,
   8297, 8298, 12288, 55295, 57344, 65023, 65024, 65039, 65040, 65279,
   1114111}
StrChars == {9, 10, 32, 65, 128, 160, 768, 8203, 8232, 12288}
StrInputs == UNION {[1..n -> StrChars] : n \in 0..MaxStrLen}

\* Char::new
CharNew(ch) ==
  IF check_char(ch) = None THEN Err("DisallowedChar") ELSE Ok(Unwrap(check_char(ch)))
\* Char::new_or
CharNewOr(ch, default) ==
  IF check_char(ch) = None THEN default ELSE Unwrap(check_char(ch))

CharInit ==
  /\ tok = << >>
  /\ res = Ok(SPACE)
  /\ op = "SPACE"
  /\ steps = 0
  /\ frame = << >> /\ fs = << >> /\ art = << >> /\ doc = << >> /\ pre = << >>

\* The operation is applied to the input; pre keeps the input of the step
\* before
CharStep(name, input, r) ==
  /\ tok' = input
  /\ pre' = tok
  /\ res' = r
  /\ op' = name
  /\ steps' = steps + 1
  /\ UNCHANGED <<frame, fs, art, doc>>

ChNew == \E ch \in CharInputs : steps = 0 /\ CharStep("new", <<ch>>, CharNew(ch))
ChNewOr ==
  \E ch \in CharInputs, default \in {SPACE, UNDERSCORE} :
    steps = 0 /\ CharStep("new_or", <<ch>>, Ok(CharNewOr(ch, default)))
ChFromStr ==
  \E s \in StrInputs \cup {<<ch>> : ch \in CharInputs} :
    steps = 0 /\ CharStep("from_str", s, CharFromStr(s))
\* normalize_text on a string, and again on its own output
ChNormalize ==
  \/ \E s \in StrInputs : steps = 0 /\ CharStep("normalize_text", s, Ok(normalize_text(s)))
  \/ /\ op = "normalize_text" /\ steps = 1
     /\ CharStep("normalize_text", res.val, Ok(normalize_text(res.val)))

CharNext == ChNew \/ ChNewOr \/ ChFromStr \/ ChNormalize

SpecChar == CharInit /\ [][CharNext]_vars

\* The code points C14 excludes: C0 controls, DEL and the C1 controls,
\* combining marks U+0300-U+036F, zero-width and joiner marks, bidi
\* controls, surrogates, and white space other than U+0020
Excluded(cp) ==
  \/ cp \in 0..31
  \/ cp \in 127..159
  \/ cp \in 768..879
  \/ cp \in 8203..8207 \/ cp = 65279 \/ cp \in 65024..65039
  \/ cp \in 8234..8238 \/ cp \in 8294..8297
  \/ cp \in 55296..57343
  \/ (IsWhitespace(cp) /\ cp # 32)

\* C14: a Char built by Char::new, Char::new_or or Char::from_str, and
\* every character of the output of normalize_text, is none of the excluded
\* code points.
C14_NoExcludedChar ==
  /\ (op \in {"new", "new_or", "from_str"} /\ res.ok) => ~Excluded(res.val)
  /\ op = "normalize_text" => \A i \in 1..Len(res.val) : ~Excluded(res.val[i])

\* Tab and the space separators (Zs) of Unicode
SpaceSeparators == {9, 32, 160, 5760, 8239, 8287, 12288} \cup (8192..8202)
\* The output C15 describes: space for tab and the space separators,
\* nothing for a rejected character, the character itself otherwise
RECURSIVE Normalized(_)
Normalized(s) ==
  IF s = << >> THEN << >>
  ELSE (IF Head(s) \in SpaceSeparators THEN <<32>>
        ELSE IF check_char(Head(s)) = None THEN << >>
        ELSE <<Head(s)>>)
       \o Normalized(Tail(s))

MaxDelayFrames == 2
MaxDelaySteps == 3
DelayValues == {0, 50, 70}

\* Art::get_global_delay / get_frame_delay
get_global_delay(a) == IF IsSome(a.delay) THEN DelayGetGlobal(Unwrap(a.delay)) ELSE 50
get_frame_delay(a, f) ==
  IF IsSome(a.delay) THEN DelayGetFrame(Unwrap(a.delay), f) ELSE 50
\* Art::set_global_delay
set_global_delay(a, global) ==
  IF IsSome(a.delay) THEN [a EXCEPT !.delay = Some(DelaySetGlobal(Unwrap(@), global))]
  ELSE IF global = 50 THEN a
  ELSE [a EXCEPT !.delay = Some([global |-> global, per_frame |-> << >>])]
\* Art::set_frame_delay
set_frame_delay(a, f, delay) ==
  IF IsSome(a.delay) THEN [a EXCEPT !.delay = Some(DelaySetFrame(Unwrap(@), f, delay))]
  ELSE IF f >= a.frames THEN a
  ELSE [a EXCEPT !.delay = Some([global |-> 50, per_frame |-> (f :> delay)])]

\* A document of n frames with no delay key; pre keeps the calls made: the
\* last global value set, if any, and per frame the last value set, 0 when
\* none was set or the last one was 0
DelayInit ==
  /\ \E n \in 1..MaxDelayFrames : art = [delay |-> None, frames |-> n]
  /\ pre = [global |-> None, frame |-> [f \in 0..MaxDelayFrames |-> 0]]
  /\ op = "new"
  /\ steps = 0
  /\ frame = << >> /\ fs = << >> /\ doc = << >> /\ tok = << >> /\ res = << >>

DlSetGlobal ==
  \E global \in DelayValues :
    /\ steps < MaxDelaySteps
    /\ art' = set_global_delay(art, global)
    /\ pre' = [pre EXCEPT !.global = Some(global)]
    /\ op' = "set_global_delay"
    /\ steps' = steps + 1
    /\ UNCHANGED <<frame, fs, doc, tok, res>>

DlSetFrame ==
  \E f \in 0..MaxDelayFrames, delay \in DelayValues :
    /\ steps < MaxDelaySteps
    /\ art' = set_frame_delay(art, f, delay)
    /\ pre' = [pre EXCEPT !.frame[f] = delay]
    /\ op' = "set_frame_delay"
    /\ steps' = steps + 1
    /\ UNCHANGED <<frame, fs, doc, tok, res>>

DelayNext == DlSetGlobal \/ DlSetFrame

SpecDelay == DelayInit /\ [][DelayNext]_vars

\* C19: get_global_delay() is the last global value set, 50 if that was 0
\* or none was set; for every frame f < frames(), get_frame_delay(f) is the
\* last value set for f if that was not 0, else get_global_delay(); no
\* query returns 0.
C19_DelayQueries ==
  /\ get_global_delay(art) =
       (IF pre.global = None \/ pre.global = Some(0) THEN 50 ELSE Unwrap(pre.global))
  /\ \A f \in 0..(art.frames - 1) :
       get_frame_delay(art, f) =
         (IF pre.frame[f] # 0 THEN pre.frame[f] ELSE get_global_delay(art))
  /\ get_global_delay(art) # 0
  /\ \A f \in 0..MaxDelayFrames : get_frame_delay(art, f) # 0

(***************************************************************************)
(* The key lines of a modern header, read one after the other by           *)
(* Header::read_modern                                                     *)
(***************************************************************************)
MaxKeyLines == 3

\* "title T", "src S", "editor E", "license L", "delay 70", "delay 50 0:70",
\* "loop yes", "loop maybe", "preview 1", "colors no"
ScalarKeyLines ==
  {Lit.title \o <<32, 84>>, Lit.src \o <<32, 83>>, Lit.editor \o <<32, 69>>,
   Lit.license \o <<32, 76>>, Lit.delay \o <<32, 55, 48>>,
   Lit.delay \o <<32, 53, 48, 32, 48, 58, 55, 48>>,
   Lit.loop \o <<32>> \o Lit.yes, Lit.loop \o <<32, 109, 97, 121, 98, 101>>,
   Lit.preview \o <<32, 49>>, Lit.colors \o <<32>> \o Lit.no}
\* "author X", "author Y", "orig-author X"
AuthorKeyLines ==
  {Lit.author \o <<32, 88>>, Lit.author \o <<32, 89>>, Lit.orig_author \o <<32, 88>>}
\* "col <k> fg:red" for k a control character (U+0001), a combining one
\* (U+0301), a zero-width one (U+200B), a bidi one (U+202E) and for "x";
\* "col x bg:red"
ColKeyLines ==
  {Lit.col \o <<32, k, 32>> \o Lit.fg \o HueNames[2] : k \in {1, 769, 8203, 8238, X}}
    \cup {Lit.col \o <<32, X, 32>> \o Lit.bg \o HueNames[2]}
ScalarKeys ==
  {Lit.title, Lit.src, Lit.editor, Lit.license, Lit.delay, Lit.loop, Lit.preview,
   Lit.colors}
KeyOf(line) == Trim(Unwrap(split_once(line))[1])

\* read_modern before its first line: doc is the text read so far
KeysInit ==
  /\ doc = << >>
  /\ res = Ok(DefaultHeader)
  /\ pre = DefaultHeader
  /\ op = "read"
  /\ steps = 0
  /\ frame = << >> /\ fs = << >> /\ art = << >> /\ tok = << >>

\* One key line read with no comment pending: the header changed, or the
\* error that ends the reading
KeyLine(line) ==
  /\ res.ok
  /\ Len(doc) < MaxKeyLines
  /\ doc' = Append(doc, line)
  /\ pre' = res.val
  /\ res' = LET k == read_modern_key(res.val, normalize_text(line), << >>)
            IN IF k.ok THEN k ELSE [k EXCEPT !.val = res.val]
  /\ op' = "key"
  /\ steps' = steps + 1
  /\ UNCHANGED <<frame, fs, art, tok>>

KScalar == \E line \in ScalarKeyLines : KeyLine(line)
KAuthor == \E line \in AuthorKeyLines : KeyLine(line)
KCol == \E line \in ColKeyLines : KeyLine(line)

KeysNext == KScalar \/ KAuthor \/ KCol

SpecKeys == KeysInit /\ [][KeysNext]_vars

\* The line-by-line reading agrees with Header::read on the text "@3a"
\* followed by the lines
KeysAgree ==
  LET r == HeaderRead(<<Lit.at3a>> \o doc)
  IN r.ok = res.ok /\ r.err = res.err /\ r.val = res.val

\* C21: a key line whose key is one of title, src, editor, license, delay,
\* loop, preview, colors and was the key of an earlier line of the header
\* fails with HeaderKeyDup; a line of the key author or orig-author is
\* accepted however often the key occurred before.
C21_DuplicateKey ==
  op = "key" =>
    LET key == KeyOf(doc[Len(doc)])
        earlier == {KeyOf(doc[i]) : i \in 1..(Len(doc) - 1)}
    IN /\ (key \in ScalarKeys /\ key \in earlier) =>
            (~res.ok /\ res.err = "HeaderKeyDup")
       /\ key \in {Lit.author, Lit.orig_author} => res.ok

\* A second preview line, behind an author line, is refused
C21_Witness ==
  /\ op = "key" /\ ~res.ok /\ res.err = "HeaderKeyDup"
  /\ Len(doc) = 3 /\ KeyOf(doc[3]) = Lit.preview /\ KeyOf(doc[1]) = Lit.preview
  /\ KeyOf(doc[2]) = Lit.author

\* C25: a line "col <k> <pair>" whose <k> is one character that check_char
\* rejects fails with DisallowedChar, and the palette stays as it was.
C25_DisallowedKey ==
  (op = "key" /\ KeyOf(doc[Len(doc)]) = Lit.col
     /\ check_char(doc[Len(doc)][5]) = None) =>
    (~res.ok /\ res.err = "DisallowedChar" /\ res.val.palette = pre.palette)

(***************************************************************************)
(* Documents of the legacy dialect and of the modern one under             *)
(* Header::read and the rest of Art::from_lines                            *)
(***************************************************************************)
MaxLegacyLines == 4

\* "@3a", "title T", "width 1", "height 1", "colors fg", "", "A1", "@body"
\* and "A<tab>c"
LegacyLineTexts ==
  {Lit.at3a, Lit.title \o <<32, 84>>, Lit.width \o <<32, 49>>,
   Lit.height \o <<32, 49>>, Lit.colors \o <<32>> \o Lit.fg_only, << >>,
   <<65, 49>>, Lit.at \o Lit.body, <<65, 9, 99>>}
LegacyDocs == UNION {[1..n -> LegacyLineTexts] : n \in 0..MaxLegacyLines}

LegacyInit ==
  /\ doc \in LegacyDocs
  /\ op = "text"
  /\ res = << >>
  /\ art = << >>
  /\ steps = 0
  /\ frame = << >> /\ fs = << >> /\ tok = << >> /\ pre = << >>

\* Header::read on the lines of the text
LgHeader ==
  /\ op = "text"
  /\ res' = HeaderRead(doc)
  /\ op' = "header"
  /\ steps' = steps + 1
  /\ UNCHANGED <<frame, fs, art, doc, tok, pre>>

\* The rest of Art::from_lines: pre keeps the outcome of Header::read
LgFrames ==
  /\ op = "header"
  /\ pre' = res
  /\ res' = from_lines_header(res, doc)
  /\ op' = "frames"
  /\ steps' = steps + 1
  /\ UNCHANGED <<frame, fs, art, doc, tok>>

LegacyNext == LgHeader \/ LgFrames

SpecLegacy == LegacyInit /\ [][LegacyNext]_vars

C23_LegacyFrames ==
  (op = "frames" /\ pre.ok /\ (doc = << >> \/ doc[1] # Lit.at3a)) =>
    /\ res.ok
    /\ res.val.frames.frames =
         LegacyScanLines(LegacyOf(pre.val), LegacyScanInit(LegacyOf(pre.val)),
                         doc, pre.pos).frames
    /\ res.val.attached = None
    /\ res.val.extra = << >>

(***************************************************************************)
(* The legacy frame scanner, one character per step: art is the            *)
(* LegacyHeaderInfo, res the locals of Frames::read_legacy, steps the      *)
(* number of characters consumed, tok those characters                     *)
(***************************************************************************)
MaxScanW == 2
MaxScanH == 2
MaxScanChars == 8
ScanChars == {65, 49}

ScanInit ==
  /\ \E cm \in {"None", "FgOnly", "BgOnly", "FgAndBg"},
        w \in 1..MaxScanW, h \in 1..MaxScanH :
       art = [colors |-> cm, width |-> w, height |-> h]
  /\ res = LegacyScanInit(art)
  /\ pre = res
  /\ op = "start"
  /\ steps = 0
  /\ frame = << >> /\ fs = << >> /\ doc = << >> /\ tok = << >>

\* A character consumed in the state `mode`
ScanStep(mode) ==
  \E c \in ScanChars :
    /\ steps < MaxScanChars
    /\ res.mode = mode
    /\ pre' = res
    /\ res' = LegacyScanChar(art, res, c)
    /\ op' = mode
    /\ steps' = steps + 1
    /\ tok' = Append(tok, c)
    /\ UNCHANGED <<frame, fs, art, doc>>
ScText == ScanStep("Text")
ScFg == ScanStep("Fg")
ScBg == ScanStep("Bg")

ScanNext == ScText \/ ScFg \/ ScBg

SpecScan == ScanInit /\ [][ScanNext]_vars

\* The states a row goes through under a color mode
ScanCycle(cm) ==
  IF cm = "None" THEN <<"Text">>
  ELSE IF cm = "FgOnly" THEN <<"Text", "Fg">>
  ELSE IF cm = "BgOnly" THEN <<"Text", "Bg">>
  ELSE <<"Text", "Fg", "Bg">>
\* The rows appended so far, and the characters consumed in the state at hand
RECURSIVE RowsOf(_)
RowsOf(frames) ==
  IF frames = << >> THEN 0 ELSE Len(frames[1].rows) + RowsOf(Tail(frames))
ScanRows(sc) == RowsOf(sc.frames) + Len(sc.frame.rows)
ScanInState(sc) ==
  IF sc.mode = "Text" THEN Len(sc.row)
  ELSE IF sc.mode = "Fg" THEN sc.fg_len ELSE sc.bg_len

\* C24: after n characters at width W the scanner is in state number
\* (n div W) mod k of the cycle of its color mode, k being the length of the
\* cycle, has consumed n mod W characters in that state, and has appended
\* n div (W * k) rows; a step appends a row only when it leaves the last
\* state of the cycle for the state Text.
C24_ScanCycle ==
  LET cyc == ScanCycle(art.colors)
      k == Len(cyc)
      W == art.width
  IN /\ res.mode = cyc[((steps \div W) % k) + 1]
     /\ ScanInState(res) = steps % W
     /\ ScanRows(res) = steps \div (W * k)
     /\ ScanRows(res) # ScanRows(pre) =>
          /\ ScanRows(res) = ScanRows(pre) + 1
          /\ pre.mode = cyc[k] /\ res.mode = "Text"
          /\ ScanInState(pre) = W - 1

\* With both colors at width 2 the sixth character ends the first row
C24_Witness ==
  /\ art.colors = "FgAndBg" /\ art.width = 2 /\ steps = 6
  /\ op = "Bg" /\ res.mode = "Text" /\ ScanRows(res) = 1 /\ ScanRows(pre) = 0

\* The channels of a row under a color mode, and every cell the scanner
\* holds, in the order of their text characters
ScanChannels(cm) == Len(ScanCycle(cm))
ScanCells(sc) ==
  Flatten(Flatten([i \in 1..Len(sc.frames) |-> sc.frames[i].rows]))
    \o Flatten(sc.frame.rows) \o sc.row

\* C31: for a width W >= 1, a height H >= 1 and K channels per row, after
\* N characters the scanner has emitted N div (W * H * K) frames, each of H
\* rows of W cells; the text of a cell is its text character; in the modes
\* with a foreground the color of a cell is trans_color of its foreground
\* character, in the other modes it has none; a background character
\* changes no cell.
C31_ScanFrames ==
  LET W == art.width
      H == art.height
      K == ScanChannels(art.colors)
      fg == art.colors \in {"FgOnly", "FgAndBg"}
      out == res.frames
  IN /\ Len(out) = steps \div (W * H * K)
     /\ \A f \in 1..Len(out) :
          /\ out[f].width = W
          /\ Len(out[f].rows) = H
          /\ \A r \in 1..H :
               /\ Len(out[f].rows[r]) = W
               /\ \A c \in 1..W :
                    LET base == ((f - 1) * H + (r - 1)) * W * K
                        cell == out[f].rows[r][c]
                    IN /\ cell.text = tok[base + c]
                       /\ cell.color = IF fg THEN Some(trans_color(tok[base + W + c]))
                                       ELSE None
     /\ op = "Bg" => ScanCells(res) = ScanCells(pre)

\* With a foreground at width 2 and height 1, "A1" then "1A" make one
\* frame whose cells have the colors "4" and "_"
C31_Witness ==
  /\ art = [colors |-> "FgOnly", width |-> 2, height |-> 1]
  /\ tok = <<65, 49, 49, 65>>
  /\ res.frames = <<[color |-> 2, width |-> 2,
                     rows |-> <<<<MkCell(65, Some(52)), MkCell(49, Some(95))>>>>]>>

(***************************************************************************)
(* The body of a modern document under Art::from_str: texts whose body     *)
(* lines are free, read as text-only, color-only or interleaved lines      *)
(***************************************************************************)
MaxBodyLines == 5

\* "A", "AB", "ABC", "AB12" and the empty line
BodyLineTexts == {<<65>>, <<65, 66>>, <<65, 66, 67>>, <<65, 66, 49, 50>>, << >>}
\* The lines before the body for each format of the body lines: no colors;
\* "colors yes"; "colors yes" and a text pin "AB"
BodyPrefix(kind) ==
  IF kind = "text" THEN <<Lit.at3a, << >>, Lit.at \o Lit.body>>
  ELSE IF kind = "both" THEN <<Lit.at3a, Lit.colors_yes, << >>, Lit.at \o Lit.body>>
  ELSE <<Lit.at3a, Lit.colors_yes, << >>, Lit.at \o Lit.text_pin, <<65, 66>>, << >>,
         Lit.at \o Lit.body>>

\* tok is the format of the body lines, pre the body lines
BodyInit ==
  /\ tok \in {"text", "both", "color"}
  /\ pre \in UNION {[1..n -> BodyLineTexts] : n \in 0..MaxBodyLines}
  /\ doc = BodyPrefix(tok) \o pre
  /\ op = "text"
  /\ res = << >>
  /\ steps = 0
  /\ frame = << >> /\ fs = << >> /\ art = << >>

\* Art::from_str
BdParse ==
  /\ op = "text"
  /\ res' = from_lines(doc)
  /\ op' = "parse"
  /\ steps' = steps + 1
  /\ UNCHANGED <<frame, fs, art, doc, tok, pre>>

BodyNext == BdParse

SpecBody == BodyInit /\ [][BodyNext]_vars

\* The frames as written in the body lines: the runs of non-empty lines up
\* to the first empty run
RECURSIVE BodyGroups(_, _, _, _)
BodyGroups(lines, pos, cur, acc) ==
  IF pos > Len(lines) THEN IF cur = << >> THEN acc ELSE Append(acc, cur)
  ELSE IF lines[pos] = << >>
    THEN IF cur = << >> THEN acc
         ELSE BodyGroups(lines, pos + 1, << >>, Append(acc, cur))
  ELSE BodyGroups(lines, pos + 1, Append(cur, lines[pos]), acc)
\* What the claim forbids in these frames
BodyViolation(kind, groups) ==
  \/ \E g \in 1..Len(groups) : \E i, j \in 1..Len(groups[g]) :
       Len(groups[g][i]) # Len(groups[g][j])
  \/ kind = "both" /\ \E g \in 1..Len(groups) : \E i \in 1..Len(groups[g]) :
       Len(groups[g][i]) % 2 # 0
  \/ \E g \in 1..Len(groups) :
       Len(groups[g]) # Len(groups[1]) \/ Len(groups[g][1]) # Len(groups[1][1])

\* C27: a body in which the rows of a frame differ in width, an interleaved
\* line has an odd length, or a frame differs from the first one in width
\* or height is refused with WidthMismatch or HeightMismatch; the frames of
\* a document that was read have the width and the height of the
\* collection, and every row has that width.
C27_UniformFrames ==
  op = "parse" =>
    /\ BodyViolation(tok, BodyGroups(pre, 1, << >>, << >>)) =>
         (~res.ok /\ res.err \in {"WidthMismatch", "HeightMismatch"})
    /\ res.ok =>
         \A i \in 1..Len(res.val.frames.frames) :
           LET f == res.val.frames.frames[i]
           IN /\ FrameWidth(f) = res.val.frames.width
              /\ FrameHeight(f) = res.val.frames.height
              /\ \A r \in 1..Len(f.rows) : Len(f.rows[r]) = res.val.frames.width

\* An interleaved body whose second frame has one row less than the first
C27_Witness ==
  /\ op = "parse" /\ tok = "both"
  /\ pre = <<<<65, 66, 49, 50>>, <<65, 66, 49, 50>>, << >>, <<65, 66, 49, 50>>, << >> >>
  /\ ~res.ok /\ res.err = "HeightMismatch"

(***************************************************************************)
(* The tags of a header under Header::add_tag and the tag lines of         *)
(* Header::read_modern                                                     *)
(***************************************************************************)
MaxTagSteps == 3

\* "a", "b", "c", "a b", "", U+200B, and "a" followed by U+200B
TagInputs == {<<97>>, <<98>>, <<99>>, <<97, 32, 98>>, << >>, <<8203>>, <<97, 8203>>}
\* "#a" and "#b #c"
TagLineInputs == {Lit.hash \o <<97>>, Lit.hash \o <<98, 32>> \o Lit.hash \o <<99>>}

\* art is the header, pre the header before the last call, tok its argument
TagsInit ==
  /\ art = DefaultHeader
  /\ pre = DefaultHeader
  /\ tok = << >>
  /\ op = "new"
  /\ steps = 0
  /\ frame = << >> /\ fs = << >> /\ doc = << >> /\ res = << >>

TgAddTag ==
  \E t \in TagInputs :
    /\ steps < MaxTagSteps
    /\ pre' = art
    /\ tok' = t
    /\ art' = add_tag(art, t)
    /\ op' = "add_tag"
    /\ steps' = steps + 1
    /\ UNCHANGED <<frame, fs, doc, res>>

\* A tag line read by Header::read_modern, with or without a comment pending
TgReadTag ==
  \E line \in TagLineInputs, buf \in {<< >>, <<<<99>>>>} :
    /\ steps < MaxTagSteps
    /\ pre' = art
    /\ tok' = line
    /\ art' = ReadTag(art, line, buf)
    /\ op' = "tag_line"
    /\ steps' = steps + 1
    /\ UNCHANGED <<frame, fs, doc, res>>

TagsNext == TgAddTag \/ TgReadTag

SpecTags == TagsInit /\ [][TagsNext]_vars

\* C28: after add_tag(t), with n the normalised t: if n is not empty the
\* header contains n; the set of tags is the one before with at most n
\* added; if a tag line contained n already, or n is empty, the header is
\* as it was; and a second add_tag(t) changes nothing.
C28_AddTag ==
  op = "add_tag" =>
    LET n == normalize_text(tok)
    IN /\ n # << >> => contains_tag(art, n)
       /\ HeaderTags(pre) \subseteq HeaderTags(art)
       /\ HeaderTags(art) \subseteq HeaderTags(pre) \cup {n}
       /\ (contains_tag(pre, n) \/ n = << >>) => art = pre
       /\ add_tag(art, tok) = art

\* The tag "c" stands in the second tag line only, and add_tag("c") leaves
\* the header as it was
C28_Witness ==
  /\ op = "add_tag" /\ tok = <<99>> /\ art = pre
  /\ Len(pre.tags) = 2
  /\ ~\E j \in 1..Len(pre.tags[1].tags) : pre.tags[1].tags[j] = <<99>>
  /\ \E j \in 1..Len(pre.tags[2].tags) : pre.tags[2].tags[j] = <<99>>

(***************************************************************************)
(* A Delay under Delay::from_str, set_global, set_frame and set_frames     *)
(***************************************************************************)
MaxMapFrames == 2
MaxMapSteps == 3

\* "70", "50 0:0 1:70", "0:70 1:70"
DelayTexts ==
  {<<55, 48>>, <<53, 48, 32, 48, 58, 48, 32, 49, 58, 55, 48>>,
   <<48, 58, 55, 48, 32, 49, 58, 55, 48>>}
\* The orders in which the entries of a map can be visited
Orders(S) ==
  {o \in [1..Cardinality(S) -> S] : \A i, j \in 1..Cardinality(S) : i # j => o[i] # o[j]}

\* art is the Delay, pre the Delay before the last call, res its argument
DelayMapInit ==
  /\ art = [global |-> 0, per_frame |-> << >>]
  /\ pre = art
  /\ res = 0
  /\ op = "default"
  /\ steps = 0
  /\ frame = << >> /\ fs = << >> /\ doc = << >> /\ tok = << >>

DelayMapStep(name, d, arg) ==
  /\ steps < MaxMapSteps
  /\ pre' = art
  /\ art' = d
  /\ res' = arg
  /\ op' = name
  /\ steps' = steps + 1
  /\ UNCHANGED <<frame, fs, doc, tok>>

\* str::parse::<Delay>
DmFromStr == \E s \in DelayTexts : DelayMapStep("from_str", DelayFromStr(s).val, 0)
\* Delay::set_global
DmSetGlobal ==
  \E global \in DelayValues : DelayMapStep("set_global", DelaySetGlobal(art, global), global)
\* Delay::set_frame
DmSetFrame ==
  \E f \in 0..MaxMapFrames, delay \in DelayValues :
    DelayMapStep("set_frame", DelaySetFrame(art, f, delay), f)
\* Delay::set_frames: the map is visited in any order
DmSetFrames ==
  \E count \in 0..(MaxMapFrames + 1), order \in Orders(DOMAIN art.per_frame) :
    DelayMapStep("set_frames", DelaySetFrames(art, count, order), count)

DelayMapNext == DmFromStr \/ DmSetGlobal \/ DmSetFrame \/ DmSetFrames

SpecDelayMap == DelayMapInit /\ [][DelayMapNext]_vars

\* C29: after set_frames(count) no override is left for a frame >= count
\* and none equals the global delay; the global delay differs from the one
\* before only if every frame below count had that delay as its override;
\* get_frame(f) is for every f < count what it was before; and the outcome
\* is the same for every order in which the overrides are visited.
C29_SetFrames ==
  op = "set_frames" =>
    /\ \A f \in DOMAIN art.per_frame :
         f < res /\ art.per_frame[f] # DelayGetGlobal(art)
    /\ DelayGetGlobal(art) # DelayGetGlobal(pre) =>
         \A f \in 0..(res - 1) :
           f \in DOMAIN pre.per_frame /\ pre.per_frame[f] = DelayGetGlobal(art)
    /\ \A f \in 0..(res - 1) : DelayGetFrame(art, f) = DelayGetFrame(pre, f)
    /\ \A order \in Orders(DOMAIN pre.per_frame) : DelaySetFrames(pre, res, order) = art

(***************************************************************************)
(* Frames::pin_color and Frames::pin_text on collections whose frames      *)
(* differ, made by Frames::new or read from a text: fs is the collection,  *)
(* pre the collection before a pin and the frame asked for, res the        *)
(* outcome of the pin                                                      *)
(***************************************************************************)
MaxPinSteps == 3
PinDims == {1, 2}
\* Texts with pins: a text pin "AB" before two color frames; a color pin
\* before a text frame; a text pin after a body; a text pin alone; a legacy
\* text of two frames of one cell
PinDocs ==
  {<<Lit.at3a, Lit.colors_yes, << >>, Lit.at \o Lit.text_pin, <<65, 66>>, << >>,
     Lit.at \o Lit.body, <<49, 50>>, << >>, <<51, 52>>, << >> >>,
   <<Lit.at3a, Lit.colors_yes, << >>, Lit.at \o Lit.color_pin, <<49, 50>>, << >>,
     Lit.at \o Lit.body, <<65, 66>>, << >> >>,
   <<Lit.at3a, Lit.colors_yes, << >>, Lit.at \o Lit.body, <<66, 49>>, << >>,
     <<65, 50>>, << >>, << >>, Lit.at \o Lit.text_pin, <<65>>, << >> >>,
   <<Lit.at3a, << >>, Lit.at \o Lit.text_pin, <<65>>, << >> >>,
   <<Lit.width \o <<32, 49>>, Lit.height \o <<32, 49>>, << >>, <<65, 66>> >>}

PinsInit ==
  /\ \E n \in 1..MaxFrames, w \in PinDims, h \in PinDims, fill \in FsCells :
       fs = FramesNew(n, w, h, fill)
  /\ pre = << >>
  /\ res = << >>
  /\ op = "new"
  /\ steps = 0
  /\ frame = << >> /\ art = << >> /\ doc = << >> /\ tok = << >>

PinsStep(s, name, before, r) ==
  /\ steps < MaxPinSteps
  /\ fs' = s
  /\ pre' = before
  /\ res' = r
  /\ op' = name
  /\ steps' = steps + 1
  /\ UNCHANGED <<frame, art, doc, tok>>

\* Frames::set of a cell of a frame
PnSet ==
  \E f \in 0..(MaxFrames - 1), c \in 0..1, r \in 0..1, cell \in FsCells :
    PinsStep(FramesSet(fs, f, c, r, cell), "set", << >>, << >>)
\* Frames::adjust and Frames::resize with the default cell
PnResize ==
  \E w \in PinDims, h \in PinDims :
    \/ PinsStep(FramesAdjust(fs, w, h, DefaultCell), "adjust", << >>, << >>)
    \/ PinsStep(FramesResize(fs, w, h, DefaultCell), "resize", << >>, << >>)
\* Art::from_str before any other operation: the frames of the document
\* read
PnParse ==
  \E d \in PinDocs :
    /\ steps = 0
    /\ from_lines(d).ok
    /\ PinsStep(from_lines(d).val.frames, "parse", << >>, << >>)
\* Frames::make_sure_frame_exist and Frames::remove_frame
PnFrames ==
  \E f \in 0..(MaxFrames - 1) :
    \/ PinsStep(make_sure_frame_exist(fs, f), "make_sure_frame_exist", << >>, << >>)
    \/ PinsStep(remove_frame(fs, f), "remove_frame", << >>, << >>)
PnPinColor ==
  \E f \in FrameIdx :
    LET m == pin_color(fs, f)
    IN PinsStep(m.fs, "pin_color", [fs |-> fs, f |-> f],
                IF m.ok THEN <<"Ok">> ELSE <<"Err", m.err>>)
PnPinText ==
  \E f \in FrameIdx :
    LET m == pin_text(fs, f)
    IN PinsStep(m.fs, "pin_text", [fs |-> fs, f |-> f],
                IF m.ok THEN <<"Ok">> ELSE <<"Err", m.err>>)

PinsNext == PnSet \/ PnResize \/ PnParse \/ PnFrames \/ PnPinColor \/ PnPinText

SpecPins == PinsInit /\ [][PinsNext]_vars

\* The text characters / the color references of a frame, row by row
TextOf(f) == [r \in 1..Len(f.rows) |-> [c \in 1..Len(f.rows[r]) |-> f.rows[r][c].text]]
ColorOf(f) == [r \in 1..Len(f.rows) |-> [c \in 1..Len(f.rows[r]) |-> f.rows[r][c].color]]

\* C32: pin_color(f) with f < frames() returns Ok, and then every frame has
\* at every cell the color reference that frame f had before the call and
\* the text it had itself; pin_text(f) likewise gives every frame the text
\* of frame f and leaves its colors; with f >= frames() either call returns
\* Ok and changes nothing.
C32_PinCopies ==
  op \in {"pin_color", "pin_text"} =>
    /\ res = <<"Ok">>
    /\ Len(fs.frames) = Len(pre.fs.frames)
    /\ IF pre.f < Len(pre.fs.frames)
         THEN \A i \in 1..Len(fs.frames) :
                IF op = "pin_color"
                  THEN /\ ColorOf(fs.frames[i]) = ColorOf(pre.fs.frames[pre.f + 1])
                       /\ TextOf(fs.frames[i]) = TextOf(pre.fs.frames[i])
                  ELSE /\ TextOf(fs.frames[i]) = TextOf(pre.fs.frames[pre.f + 1])
                       /\ ColorOf(fs.frames[i]) = ColorOf(pre.fs.frames[i])
         ELSE fs = pre.fs

\* pin_color(1) gave frame 0, which had no color, the color of frame 1 and
\* left it its own text
C32_Witness ==
  /\ op = "pin_color" /\ pre.f = 1 /\ Len(pre.fs.frames) = 2
  /\ ColorOf(pre.fs.frames[1]) # ColorOf(pre.fs.frames[2])
  /\ TextOf(pre.fs.frames[1]) # TextOf(pre.fs.frames[2])
  /\ ColorOf(fs.frames[1]) = ColorOf(pre.fs.frames[2])
  /\ TextOf(fs.frames[1]) = TextOf(pre.fs.frames[1])

(***************************************************************************)
(* Frame::shift_* and Frame::resize on frames whose cells differ: pre      *)
(* keeps the frame before the call and the arguments                       *)
(***************************************************************************)
MaxRsSteps == 2
RsFills == {DefaultCell, MkCell(B, None)}

ReshapeInit ==
  /\ \E w \in Widths, h \in Heights : frame = FrameNew(w, h, DefaultCell)
  /\ pre = << >>
  /\ op = "new"
  /\ steps = 0
  /\ fs = << >> /\ art = << >> /\ doc = << >> /\ tok = << >> /\ res = << >>

ReshapeStep(f, name, args) ==
  /\ steps < MaxRsSteps
  /\ frame' = f
  /\ pre' = args
  /\ op' = name
  /\ steps' = steps + 1
  /\ UNCHANGED <<fs, art, doc, tok, res>>

\* Frame::set of a colored cell
RsSet ==
  \E c \in Widths, r \in Heights :
    ReshapeStep(FrameSet(frame, c, r, MkCell(A, Some(Ch1))), "set", << >>)
RsShiftCols ==
  \E k \in 0..(MaxW + 1), fill \in RsFills :
    \/ ReshapeStep(FrameShiftRight(frame, k, fill), "shift_right",
                   [frame |-> frame, k |-> k, fill |-> fill])
    \/ ReshapeStep(FrameShiftLeft(frame, k, fill), "shift_left",
                   [frame |-> frame, k |-> k, fill |-> fill])
RsShiftRows ==
  \E k \in 0..(MaxH + 1), fill \in RsFills :
    \/ ReshapeStep(FrameShiftDown(frame, k, fill), "shift_down",
                   [frame |-> frame, k |-> k, fill |-> fill])
    \/ ReshapeStep(FrameShiftUp(frame, k, fill), "shift_up",
                   [frame |-> frame, k |-> k, fill |-> fill])
RsResize ==
  \E w \in Widths, h \in Heights, fill \in RsFills :
    ReshapeStep(FrameResize(frame, w, h, fill), "resize",
                [frame |-> frame, w |-> w, h |-> h, fill |-> fill])

ReshapeNext == RsSet \/ RsShiftCols \/ RsShiftRows \/ RsResize

SpecReshape == ReshapeInit /\ [][ReshapeNext]_vars

\* C33: shift_right(k, fill) on a frame of width W leaves the width, the
\* height and the length of every row, and in every row the cell at column
\* c is fill for c < min(k, W) and the old cell at c - k for c >= k;
\* shift_left makes it the old cell at c + k when c + k < W and fill
\* otherwise; shift_down and shift_up do the same with the rows, a vacated
\* row being a row of fill.
C33_Shift ==
  op \in {"shift_right", "shift_left", "shift_down", "shift_up"} =>
    LET old == pre.frame
        k == pre.k
        W == FrameWidth(old)
        H == FrameHeight(old)
    IN /\ FrameWidth(frame) = W
       /\ FrameHeight(frame) = H
       /\ \A r \in 1..H :
            /\ Len(frame.rows[r]) = Len(old.rows[r])
            /\ \A c \in 1..Len(frame.rows[r]) :
                 frame.rows[r][c] =
                   IF op = "shift_right"
                     THEN IF c - 1 >= k THEN old.rows[r][c - k] ELSE pre.fill
                   ELSE IF op = "shift_left"
                     THEN IF c - 1 + k < W THEN old.rows[r][c + k] ELSE pre.fill
                   ELSE IF op = "shift_down"
                     THEN IF r - 1 >= k THEN old.rows[r - k][c] ELSE pre.fill
                   ELSE IF r - 1 + k < H THEN old.rows[r + k][c] ELSE pre.fill

\* shift_left(1, fill) moved the colored cell of column 1 to column 0 and
\* put fill in column 1
C33_Witness ==
  /\ op = "shift_left" /\ pre.k = 1 /\ FrameWidth(pre.frame) = 2
  /\ FrameHeight(pre.frame) >= 1
  /\ pre.frame.rows[1] = <<DefaultCell, MkCell(A, Some(Ch1))>>
  /\ pre.fill = MkCell(B, None)
  /\ frame.rows[1] = <<MkCell(A, Some(Ch1)), MkCell(B, None)>>

\* C34: after resize(w, h, fill) the width is w, the height is h, every row
\* has w cells, a cell inside the old and the new bounds keeps its value and
\* every other cell is fill.
C34_Resize ==
  op = "resize" =>
    /\ FrameWidth(frame) = pre.w
    /\ FrameHeight(frame) = pre.h
    /\ \A r \in 1..Len(frame.rows) :
         /\ Len(frame.rows[r]) = pre.w
         /\ \A c \in 1..Len(frame.rows[r]) :
              frame.rows[r][c] =
                IF r <= FrameHeight(pre.frame) /\ c <= FrameWidth(pre.frame)
                  THEN pre.frame.rows[r][c] ELSE pre.fill

\* resize(2, 2, fill) of a frame of one colored cell keeps that cell and
\* fills the three others
C34_Witness ==
  /\ op = "resize" /\ pre.w = 2 /\ pre.h = 2
  /\ pre.frame.rows = <<<<MkCell(A, Some(Ch1))>>>>
  /\ pre.fill = MkCell(B, None)
  /\ frame.rows = <<<<MkCell(A, Some(Ch1)), MkCell(B, None)>>,
                    <<MkCell(B, None), MkCell(B, None)>>>>

\* C37: the pins are never left set: after a text is read and after every
\* operation of the collection, pin_color and pin_text included, text_pin
\* and color_pin are None, and pin_color and pin_text return no error.
C37_PinsTransient ==
  /\ fs.text_pin = None
  /\ fs.color_pin = None
  /\ op \in {"pin_color", "pin_text"} => res = <<"Ok">>

\* pin_text(1) after the text with a text pin "AB" and two color frames
\* was read and the text of a cell of frame 1 changed
C37_Witness ==
  /\ op = "pin_text" /\ pre.f = 1 /\ res = <<"Ok">>
  /\ Len(pre.fs.frames) = 2
  /\ pre.fs.frames[1].rows = <<<<MkCell(65, Some(49)), MkCell(66, Some(50))>>>>
  /\ TextOf(pre.fs.frames[2]) # TextOf(pre.fs.frames[1])
  /\ TextOf(fs.frames[1]) = TextOf(pre.fs.frames[2])
  /\ fs.text_pin = None /\ fs.color_pin = None

====
